---- MODULE Spec2Model ----
(***************************************************************************)
(* The byte-budget accountant of bincode's DecoderImpl                     *)
(* (src/bincode/bincode/src/de/decoder.rs) and the container decode        *)
(* protocol built on it (src/bincode/bincode/src/features/impl_alloc.rs).  *)
(*                                                                         *)
(* Encoding is modelled on a writer [out, cap, log] in the same style.      *)
(*                                                                         *)
(* A decoder is the record [bytes_read, slice, log]: the private counter,  *)
(* the bytes the reader has not yet handed out, and a ghost log of the     *)
(* budget and reader calls of the current top-level call.  Every trait     *)
(* method is an operator from a decoder to an outcome [d, res, val], and   *)
(* `?` is the propagation of a res other than "Ok".                        *)
(***************************************************************************)
EXTENDS Integers, Sequences, FiniteSets, TLC

VARIABLES
    LIMIT,            \* Config::LIMIT: None or Some(L), fixed at compile time
    overflow_checks,  \* the build profile: TRUE panics on `-=` underflow, FALSE wraps
    bytes_read,       \* DecoderImpl::bytes_read
    slice,            \* the reader: the bytes not yet consumed
    context,          \* DecoderImpl::context
    scopes,           \* the nested decode calls in progress and the WithContext
                      \* scopes alive, outermost first
    call,             \* ghost: the last call made, [op, n, via]
    result,           \* ghost: what the last call returned
    value,            \* ghost: the value the last decode returned, <<v>> or <<>>
    log,              \* ghost: the budget and reader calls the last call made
    pre,              \* ghost: [bytes_read, slice] just before the last call
    hist,             \* ghost: what has happened to the counter so far
    writer,           \* the encoder's writer: [out, cap, log]
    subject,          \* ghost: the value handed to encode, <<v>> or <<>>
    access,           \* the bridge's Access handed to a visitor: <<>> or <<a>>
    input,            \* virtue: the Peekable token stream a parser reads from
    generics,         \* virtue: Generics::try_take at work: [pc, result]
    constraints,      \* virtue: GenericConstraints.constraints, a token list
    impl_for,         \* virtue: the ImplFor being built, <<>> or <<i>>
    generator         \* virtue: the parent Generator: what it parsed, what was appended

\* the state of virtue, the crate the derive macros are written with
virtue == <<input, generics, constraints, impl_for, generator>>

vars == <<LIMIT, overflow_checks, bytes_read, slice, context, scopes,
          call, result, value, log, pre, hist, writer, subject, access, virtue>>

\* no parser and no generator of virtue is at work
NoVirtue ==
    /\ input = <<>>
    /\ generics = [pc |-> "idle", result |-> <<>>]
    /\ constraints = <<>>
    /\ impl_for = <<>>
    /\ generator = <<>>

-----------------------------------------------------------------------------
(* Bounds of the model *)

\* width of usize in bits
UsizeBits == 6
\* the limits tried when decoding are 0..MaxLimit, and as many above the
\* footprint of one container
MaxLimit == 5
\* the largest Config::LIMIT tried when the accountant is driven directly
MaxDirectLimit == 3
\* the direct calls claim and unclaim 0..MaxArg, and the two largest usize
MaxArg == 3
\* the input bytes are 0..MaxByte
MaxByte == 2
\* the input is at most this long
MaxInputLen == 4
\* contexts are 0..MaxCtx
MaxCtx == 1
\* nested decode calls and WithContext wrappers go at most this deep
MaxDepth == 2
\* through a handle, 0..MaxWrapArg is claimed and unclaimed
MaxWrapArg == 1

\* containers handed to encode hold at most this many elements
MaxItems == 2
\* a bounded sink has room for 0..MaxCap bytes
MaxCap == 4

UsizeMax == 2 ^ UsizeBits - 1

\* Option<usize>: None, or Some(x) with x == Unwrap(Some(x))
None == <<>>

Some(x) == <<x>>

Unwrap(o) == o[1]

DirectLimits == {None} \cup {Some(l) : l \in 0 .. MaxDirectLimit}

Args == (0 .. MaxArg) \cup {UsizeMax - 1, UsizeMax}

Bytes == 0 .. MaxByte

RECURSIVE SeqsUpTo(_, _)
SeqsUpTo(S, n) ==
    IF n = 0 THEN {<<>>}
    ELSE LET shorter == SeqsUpTo(S, n - 1)
         IN  shorter \cup {Append(s, x) : s \in {t \in shorter : Len(t) = n - 1}, x \in S}

Inputs == SeqsUpTo(Bytes, MaxInputLen)

-----------------------------------------------------------------------------
(* Decoders and outcomes *)

Dec(b, s) == [bytes_read |-> b, slice |-> s, log |-> <<>>]

Logged(d, e) == [d EXCEPT !.log = Append(@, e)]

Ok(d, v) == [d |-> d, res |-> "Ok", val |-> <<v>>]

Unit(d) == [d |-> d, res |-> "Ok", val |-> <<>>]

Err(d, e) == [d |-> d, res |-> e, val |-> <<>>]

\* a writer that has been handed nothing: out is what it holds, cap is None
\* for a VecWriter and Some(n) for a sink that takes n bytes, log is the ghost
\* record of the calls made on it
Writer(cap) == [out |-> <<>>, cap |-> cap, log |-> <<>>]

NoWriter == Writer(None)

-----------------------------------------------------------------------------
(* DecoderImpl: the byte-budget accountant *)

\* usize::checked_add
checked_add(a, n) == IF a + n > UsizeMax THEN None ELSE Some(a + n)

\* mutant: the ceiling test lets one byte too many through
OverLimit_lenient(b, limit) == b > limit + 1

\* mutant: the ceiling test rejects a claim that lands exactly on the limit
OverLimit_strict(b, limit) == b >= limit

\* the `>` of `self.bytes_read > limit`
OverLimit(b, limit) == b > limit

\* mutant: a claim that fails on the ceiling does not keep the sum
claim_bytes_read_rollback(d, n) ==
    IF LIMIT # None
    THEN LET sum == checked_add(d.bytes_read, n)
         IN  IF sum = None
             THEN Err(Logged(d, <<"claim", n, "Overflow">>), "LimitExceeded")
             ELSE IF OverLimit(Unwrap(sum), Unwrap(LIMIT))
                  THEN Err(Logged(d, <<"claim", n, "LimitExceeded">>), "LimitExceeded")
                  ELSE Unit(Logged([d EXCEPT !.bytes_read = Unwrap(sum)], <<"claim", n, "Ok">>))
    ELSE Unit(Logged(d, <<"claim", n, "Ok">>))

\* mutant: the counter is kept even when the Config has no limit
claim_bytes_read_counts(d, n) ==
    LET sum == checked_add(d.bytes_read, n)
    IN  IF sum = None
        THEN Err(Logged(d, <<"claim", n, "Overflow">>), "LimitExceeded")
        ELSE LET d2 == [d EXCEPT !.bytes_read = Unwrap(sum)]
             IN  IF LIMIT # None /\ OverLimit(d2.bytes_read, Unwrap(LIMIT))
                 THEN Err(Logged(d2, <<"claim", n, "LimitExceeded">>), "LimitExceeded")
                 ELSE Unit(Logged(d2, <<"claim", n, "Ok">>))

\* mutant: a sum that overflows is stored wrapped around
claim_bytes_read_wraps(d, n) ==
    IF LIMIT # None
    THEN LET sum == checked_add(d.bytes_read, n)
         IN  IF sum = None
             THEN Err(Logged([d EXCEPT !.bytes_read = (@ + n) % (UsizeMax + 1)],
                             <<"claim", n, "Overflow">>), "LimitExceeded")
             ELSE LET d2 == [d EXCEPT !.bytes_read = Unwrap(sum)]
                  IN  IF OverLimit(d2.bytes_read, Unwrap(LIMIT))
                      THEN Err(Logged(d2, <<"claim", n, "LimitExceeded">>), "LimitExceeded")
                      ELSE Unit(Logged(d2, <<"claim", n, "Ok">>))
    ELSE Unit(Logged(d, <<"claim", n, "Ok">>))

claim_bytes_read(d, n) ==
    IF LIMIT # None
    THEN LET sum == checked_add(d.bytes_read, n)
         IN  IF sum = None
             THEN Err(Logged(d, <<"claim", n, "Overflow">>), "LimitExceeded")
             ELSE LET d2 == [d EXCEPT !.bytes_read = Unwrap(sum)]
                  IN  IF OverLimit(d2.bytes_read, Unwrap(LIMIT))
                      THEN Err(Logged(d2, <<"claim", n, "LimitExceeded">>), "LimitExceeded")
                      ELSE Unit(Logged(d2, <<"claim", n, "Ok">>))
    ELSE Unit(Logged(d, <<"claim", n, "Ok">>))

\* `self.bytes_read -= n`: an underflow panics when the build checks overflow
\* and wraps when it does not
SubAssign(b, n) ==
    IF n <= b THEN [b |-> b - n, res |-> "Ok"]
    ELSE IF overflow_checks THEN [b |-> b, res |-> "Panic"]
    ELSE [b |-> (b - n) % (UsizeMax + 1), res |-> "Ok"]

unclaim_bytes_read(d, n) ==
    IF LIMIT # None
    THEN LET sub == SubAssign(d.bytes_read, n)
             d2  == Logged([d EXCEPT !.bytes_read = sub.b],
                           <<"unclaim", n, IF n <= d.bytes_read THEN "Ok" ELSE "Underflow">>)
         IN  IF sub.res = "Ok" THEN Unit(d2) ELSE Err(d2, sub.res)
    ELSE Unit(Logged(d, <<"unclaim", n, "Ok">>))

-----------------------------------------------------------------------------
(* The reader and the primitive decodes the containers are built from *)

\* Reader::read of a slice reader: exactly n bytes, or nothing and an error
read(d, n) ==
    IF n > Len(d.slice)
    THEN Err(Logged(d, <<"read", n, "UnexpectedEnd">>), "UnexpectedEnd")
    ELSE Ok(Logged([d EXCEPT !.slice = SubSeq(@, n + 1, Len(@))], <<"read", n, "Ok">>),
            SubSeq(d.slice, 1, n))

\* <u8 as Decode>::decode: claim the byte, then read it
decode_u8(d) ==
    LET c == claim_bytes_read(d, 1)
    IN  IF c.res # "Ok" THEN c
        ELSE LET r == read(c.d, 1)
             IN  IF r.res # "Ok" THEN r ELSE Ok(r.d, r.val[1][1])

\* de::decode_slice_len: a small count is one byte on the wire
decode_slice_len(d) ==
    LET c == claim_bytes_read(d, 1)
    IN  IF c.res # "Ok" THEN c
        ELSE LET r == read(c.d, 1)
             IN  IF r.res # "Ok" THEN r ELSE Ok(r.d, r.val[1][1])

\* Decoder::claim_container_read::<T>(len): claim len * size_of::<T>()
claim_container_read(d, len, size) ==
    IF LIMIT # None
    THEN IF len * size > UsizeMax
         THEN Err(Logged(d, <<"mul", len * size, "Overflow">>), "LimitExceeded")
         ELSE claim_bytes_read(Logged(d, <<"container", len * size, "Start">>), len * size)
    ELSE Unit(d)

-----------------------------------------------------------------------------
(* Types and their sizes in memory *)

U8 == <<"u8">>

VecOf(T) == <<"Vec", T>>

BTreeSetOf(T) == <<"BTreeSet", T>>

BTreeMapOf(K, V) == <<"BTreeMap", K, V>>

VecDequeOf(T) == <<"VecDeque", T>>

StringT == <<"String">>

CowStr == <<"Cow<str>">>

RcStr == <<"Rc<str>">>

\* core::mem::size_of::<u8>()
SizeOfU8 == 1
\* core::mem::size_of of Vec<T>, BTreeSet<T> and BTreeMap<K, V>: three words
SizeOfContainer == 24

\* core::mem::size_of::<T>()
size_of(T) == IF T[1] = "u8" THEN SizeOfU8 ELSE SizeOfContainer

\* core::mem::size_of::<(K, V)>(), K and V of the same alignment
size_of_pair(K, V) == size_of(K) + size_of(V)

Limits ==
    {None} \cup {Some(l) : l \in (0 .. MaxLimit) \cup (SizeOfContainer .. SizeOfContainer + MaxLimit)}

\* unty::type_equal::<T, u8>()
type_equal_u8(T) == T[1] = "u8"

-----------------------------------------------------------------------------
(* impl Decode for Vec<T>, BTreeSet<T>, BTreeMap<K, V> *)

RECURSIVE decode(_, _)
RECURSIVE vec_loop(_, _, _, _)
RECURSIVE set_loop(_, _, _, _)
RECURSIVE map_loop(_, _, _, _, _)

\* BTreeMap::insert: a repeated key replaces the value
\* mutant: an insert under a key already present keeps the earlier value
map_insert_keeps_first(m, k, v) == [x \in DOMAIN m \cup {k} |-> IF x \in DOMAIN m THEN m[x] ELSE v]

map_insert(m, k, v) == [x \in DOMAIN m \cup {k} |-> IF x = k THEN v ELSE m[x]]

\* mutant: the loop of Vec<T> forgets the refund
RefundVec_none(d, T) == Unit(d)

\* mutant: the loop of BTreeSet<T> refunds one byte too little
RefundSet_short(d, T) == unclaim_bytes_read(d, size_of(T) - 1)

\* mutant: the loop of BTreeMap<K, V> refunds the pair twice
RefundMap_double(d, K, V) == unclaim_bytes_read(d, 2 * size_of_pair(K, V))

\* the refund at the head of the loop body of Vec<T>
RefundVec(d, T) == unclaim_bytes_read(d, size_of(T))

\* the refund at the head of the loop body of BTreeSet<T>
RefundSet(d, T) == unclaim_bytes_read(d, size_of(T))

\* the refund at the head of the loop body of BTreeMap<K, V>
RefundMap(d, K, V) == unclaim_bytes_read(d, size_of_pair(K, V))

\* mutant: the loop of Vec<T> drops an element that fails and goes on
vec_loop_best_effort(d, T, left, vec) ==
    IF left = 0 THEN Ok(d, vec)
    ELSE LET u == RefundVec(Logged(d, <<"iter", size_of(T), "Vec">>), T)
         IN  IF u.res # "Ok" THEN u
             ELSE LET e == decode(u.d, T)
                  IN  IF e.res # "Ok" THEN vec_loop(e.d, T, left - 1, vec)
                      ELSE vec_loop(e.d, T, left - 1, Append(vec, e.val[1]))

\* for _ in 0..len { unclaim; vec.push(T::decode(decoder)?) }
vec_loop(d, T, left, vec) ==
    IF left = 0 THEN Ok(d, vec)
    ELSE LET u == RefundVec(Logged(d, <<"iter", size_of(T), "Vec">>), T)
         IN  IF u.res # "Ok" THEN u
             ELSE LET e == decode(u.d, T)
                  IN  IF e.res # "Ok" THEN Err(e.d, e.res)
                      ELSE vec_loop(e.d, T, left - 1, Append(vec, e.val[1]))

\* for _ in 0..len { unclaim; map.insert(T::decode(decoder)?) }
set_loop(d, T, left, set) ==
    IF left = 0 THEN Ok(d, set)
    ELSE LET u == RefundSet(Logged(d, <<"iter", size_of(T), "BTreeSet">>), T)
         IN  IF u.res # "Ok" THEN u
             ELSE LET e == decode(u.d, T)
                  IN  IF e.res # "Ok" THEN Err(e.d, e.res)
                      ELSE set_loop(e.d, T, left - 1, set \cup {e.val[1]})

\* for _ in 0..len { unclaim; key = K::decode?; value = V::decode?; map.insert(key, value) }
map_loop(d, K, V, left, map) ==
    IF left = 0 THEN Ok(d, map)
    ELSE LET u == RefundMap(Logged(d, <<"iter", size_of_pair(K, V), "BTreeMap">>), K, V)
         IN  IF u.res # "Ok" THEN u
             ELSE LET k == decode(u.d, K)
                  IN  IF k.res # "Ok" THEN Err(k.d, k.res)
                      ELSE LET v == decode(k.d, V)
                           IN  IF v.res # "Ok" THEN Err(v.d, v.res)
                               ELSE map_loop(v.d, K, V, left - 1,
                                             map_insert(map, k.val[1], v.val[1]))

\* mutant: the fast path fills the buffer before it claims the bytes
decode_Vec_fast_reads_first(d, T, len) ==
    LET r == read(d, len)
    IN  IF r.res # "Ok" THEN r
        ELSE LET c == claim_container_read(r.d, len, size_of(T))
             IN  IF c.res # "Ok" THEN c ELSE Ok(c.d, r.val[1])

\* mutant: the fast path reads the bytes without claiming them
decode_Vec_fast_unclaimed(d, T, len) ==
    LET r == read(d, len)
    IN  IF r.res # "Ok" THEN r ELSE Ok(r.d, r.val[1])

\* the branch of Vec<T>::decode taken when T is u8: one claim, one read
decode_Vec_fast(d, T, len) ==
    LET c == claim_container_read(d, len, size_of(T))
    IN  IF c.res # "Ok" THEN c
        ELSE LET r == read(c.d, len)
             IN  IF r.res # "Ok" THEN r ELSE Ok(r.d, r.val[1])

\* the branch of Vec<T>::decode taken for every other T: claim, then the loop
decode_Vec_loop(d, T, len) ==
    LET c == claim_container_read(d, len, size_of(T))
    IN  IF c.res # "Ok" THEN c
        ELSE vec_loop(Logged(c.d, <<"loop", len * size_of(T), "Vec">>), T, len, <<>>)

decode_Vec(d, T) ==
    LET l == decode_slice_len(d)
    IN  IF l.res # "Ok" THEN Err(l.d, l.res)
        ELSE IF type_equal_u8(T)
             THEN decode_Vec_fast(l.d, T, l.val[1])
             ELSE decode_Vec_loop(l.d, T, l.val[1])

decode_BTreeSet(d, T) ==
    LET l == decode_slice_len(d)
    IN  IF l.res # "Ok" THEN Err(l.d, l.res)
        ELSE LET len == l.val[1]
                 c   == claim_container_read(l.d, len, size_of(T))
             IN  IF c.res # "Ok" THEN c
                 ELSE set_loop(Logged(c.d, <<"loop", len * size_of(T), "BTreeSet">>),
                               T, len, {})

decode_BTreeMap(d, K, V) ==
    LET l == decode_slice_len(d)
    IN  IF l.res # "Ok" THEN Err(l.d, l.res)
        ELSE LET len == l.val[1]
                 c   == claim_container_read(l.d, len, size_of_pair(K, V))
             IN  IF c.res # "Ok" THEN c
                 ELSE map_loop(Logged(c.d, <<"loop", len * size_of_pair(K, V), "BTreeMap">>),
                               K, V, len, <<>>)

\* T::decode(decoder), by the impl of T
decode(d, T) ==
    CASE T[1] = "u8" -> decode_u8(d)
      [] T[1] = "Vec" -> decode_Vec(d, T[2])
      [] T[1] = "BTreeSet" -> decode_BTreeSet(d, T[2])
      [] T[1] = "BTreeMap" -> decode_BTreeMap(d, T[2], T[3])

\* a VecDeque is the pair of slices as_slices() gives: its elements are
\* front \o back.  From<Vec<T>>: the elements lie in one piece
VecDeque_from(vec) == [front |-> vec, back |-> <<>>]

\* `?` on the outcome v of a decode, then .into() a VecDeque
VecDeque_into(v) == IF v.res # "Ok" THEN Err(v.d, v.res) ELSE Ok(v.d, VecDeque_from(v.val[1]))

\* Ok(Vec::<T>::decode(decoder)?.into())
decode_VecDeque(d, T) == VecDeque_into(decode_Vec(d, T))

RECURSIVE from_utf8(_)
\* core::str::from_utf8 for bytes below 0xE0: an ASCII byte, or a lead byte
\* 0xC2..0xDF followed by one continuation byte 0x80..0xBF
from_utf8(bytes) ==
    IF bytes = <<>> THEN TRUE
    ELSE IF bytes[1] < 128 THEN from_utf8(Tail(bytes))
    ELSE IF bytes[1] >= 194 /\ bytes[1] <= 223 /\ Len(bytes) >= 2
            /\ bytes[2] >= 128 /\ bytes[2] <= 191
         THEN from_utf8(Tail(Tail(bytes)))
         ELSE FALSE

\* `?` on the outcome v of a decode of bytes, then
\* String::from_utf8(bytes).map_err(Utf8)
String_from_utf8(v) ==
    IF v.res # "Ok" THEN Err(v.d, v.res)
    ELSE IF from_utf8(v.val[1]) THEN Ok(v.d, v.val[1]) ELSE Err(v.d, "Utf8")

\* let bytes = Vec::<u8>::decode(decoder)?; String::from_utf8(bytes)
decode_String(d) == String_from_utf8(decode_Vec(d, U8))

\* `?` on the outcome t of a decode of text, then Cow::Owned(t) or
\* Cow::Borrowed(t)
Cow_of(t, variant) ==
    IF t.res # "Ok" THEN Err(t.d, t.res) ELSE Ok(t.d, [cow |-> variant, str |-> t.val[1]])

\* `?` on the outcome t of String::decode, then decoded.into()
Str_into(t) == IF t.res # "Ok" THEN Err(t.d, t.res) ELSE Ok(t.d, t.val[1])

\* Cow<str>::decode: <T as ToOwned>::Owned::decode(decoder)?, Cow::Owned(t)
decode_Cow(d) == Cow_of(decode_String(d), "Owned")

\* Rc<str>::decode, Arc<str>::decode: String::decode(decoder)?, decoded.into()
decode_RcStr(d) == Str_into(decode_String(d))

\* T::decode(decoder) for the types that are decoded as a whole value only
decode_value(d, T) ==
    CASE T[1] = "VecDeque" -> decode_VecDeque(d, T[2])
      [] T[1] = "String" -> decode_String(d)
      [] T[1] = "Cow<str>" -> decode_Cow(d)
      [] T[1] = "Rc<str>" -> decode_RcStr(d)
      [] OTHER -> decode(d, T)

-----------------------------------------------------------------------------
(* impl BorrowDecode for Vec<T>, BTreeSet<T>, BTreeMap<K, V>, Cow, Rc<str> *)

RECURSIVE borrow_decode(_, _)
RECURSIVE borrow_vec_loop(_, _, _, _)
RECURSIVE borrow_set_loop(_, _, _, _)
RECURSIVE borrow_map_loop(_, _, _, _, _)

\* BorrowReader::take_bytes of a slice reader: a view of the next n bytes, or
\* nothing and an error
take_bytes(d, n) ==
    IF n > Len(d.slice)
    THEN Err(Logged(d, <<"read", n, "UnexpectedEnd">>), "UnexpectedEnd")
    ELSE Ok(Logged([d EXCEPT !.slice = SubSeq(@, n + 1, Len(@))], <<"read", n, "Ok">>),
            SubSeq(d.slice, 1, n))

\* <&[u8] as BorrowDecode>::borrow_decode: the length, a claim of len bytes,
\* then the view
borrow_decode_bytes(d) ==
    LET l == decode_slice_len(d)
    IN  IF l.res # "Ok" THEN Err(l.d, l.res)
        ELSE LET c == claim_bytes_read(l.d, l.val[1])
             IN  IF c.res # "Ok" THEN c ELSE take_bytes(c.d, l.val[1])

\* <&str as BorrowDecode>::borrow_decode: the bytes, checked by from_utf8
borrow_decode_str(d) == String_from_utf8(borrow_decode_bytes(d))

\* mutant: the borrowing loop of Vec<T> forgets the refund
BorrowRefundVec_none(d, T) == Unit(d)

\* the refund at the head of the loop body of Vec<T>::borrow_decode
BorrowRefundVec(d, T) == unclaim_bytes_read(d, size_of(T))

\* for _ in 0..len { unclaim; vec.push(T::borrow_decode(decoder)?) }
borrow_vec_loop(d, T, left, vec) ==
    IF left = 0 THEN Ok(d, vec)
    ELSE LET u == BorrowRefundVec(Logged(d, <<"iter", size_of(T), "Vec">>), T)
         IN  IF u.res # "Ok" THEN u
             ELSE LET e == borrow_decode(u.d, T)
                  IN  IF e.res # "Ok" THEN Err(e.d, e.res)
                      ELSE borrow_vec_loop(e.d, T, left - 1, Append(vec, e.val[1]))

\* for _ in 0..len { unclaim; map.insert(T::borrow_decode(decoder)?) }
borrow_set_loop(d, T, left, set) ==
    IF left = 0 THEN Ok(d, set)
    ELSE LET u == unclaim_bytes_read(Logged(d, <<"iter", size_of(T), "BTreeSet">>), size_of(T))
         IN  IF u.res # "Ok" THEN u
             ELSE LET e == borrow_decode(u.d, T)
                  IN  IF e.res # "Ok" THEN Err(e.d, e.res)
                      ELSE borrow_set_loop(e.d, T, left - 1, set \cup {e.val[1]})

\* for _ in 0..len { unclaim; key = K::borrow_decode?; value = V::borrow_decode?; insert }
borrow_map_loop(d, K, V, left, map) ==
    IF left = 0 THEN Ok(d, map)
    ELSE LET u == unclaim_bytes_read(Logged(d, <<"iter", size_of_pair(K, V), "BTreeMap">>),
                                     size_of_pair(K, V))
         IN  IF u.res # "Ok" THEN u
             ELSE LET k == borrow_decode(u.d, K)
                  IN  IF k.res # "Ok" THEN Err(k.d, k.res)
                      ELSE LET v == borrow_decode(k.d, V)
                           IN  IF v.res # "Ok" THEN Err(v.d, v.res)
                               ELSE borrow_map_loop(v.d, K, V, left - 1,
                                                    map_insert(map, k.val[1], v.val[1]))

borrow_decode_Vec(d, T) ==
    LET l == decode_slice_len(d)
    IN  IF l.res # "Ok" THEN Err(l.d, l.res)
        ELSE LET len == l.val[1]
                 c   == claim_container_read(l.d, len, size_of(T))
             IN  IF c.res # "Ok" THEN c
                 ELSE IF type_equal_u8(T)
                      THEN LET r == read(c.d, len)
                           IN  IF r.res # "Ok" THEN r ELSE Ok(r.d, r.val[1])
                      ELSE borrow_vec_loop(Logged(c.d, <<"loop", len * size_of(T), "Vec">>),
                                           T, len, <<>>)

borrow_decode_BTreeSet(d, T) ==
    LET l == decode_slice_len(d)
    IN  IF l.res # "Ok" THEN Err(l.d, l.res)
        ELSE LET len == l.val[1]
                 c   == claim_container_read(l.d, len, size_of(T))
             IN  IF c.res # "Ok" THEN c
                 ELSE borrow_set_loop(Logged(c.d, <<"loop", len * size_of(T), "BTreeSet">>),
                                      T, len, {})

borrow_decode_BTreeMap(d, K, V) ==
    LET l == decode_slice_len(d)
    IN  IF l.res # "Ok" THEN Err(l.d, l.res)
        ELSE LET len == l.val[1]
                 c   == claim_container_read(l.d, len, size_of_pair(K, V))
             IN  IF c.res # "Ok" THEN c
                 ELSE borrow_map_loop(
                          Logged(c.d, <<"loop", len * size_of_pair(K, V), "BTreeMap">>),
                          K, V, len, <<>>)

\* Cow::borrow_decode: <&T>::borrow_decode(decoder)?, Cow::Borrowed(t)
borrow_decode_Cow(d) == Cow_of(borrow_decode_str(d), "Borrowed")

\* Rc<str>::borrow_decode, Arc<str>::borrow_decode: String::decode(decoder)?
borrow_decode_RcStr(d) == Str_into(decode_String(d))

\* T::borrow_decode(decoder), by the impl of T; impl_borrow_decode! gives u8
\* the owned decode
borrow_decode(d, T) ==
    CASE T[1] = "u8" -> decode_u8(d)
      [] T[1] = "Vec" -> borrow_decode_Vec(d, T[2])
      [] T[1] = "BTreeSet" -> borrow_decode_BTreeSet(d, T[2])
      [] T[1] = "BTreeMap" -> borrow_decode_BTreeMap(d, T[2], T[3])

\* T::borrow_decode(decoder) for the types that are decoded as a whole value
\* only; impl_borrow_decode!(String) gives String the owned decode
borrow_decode_value(d, T) ==
    CASE T[1] = "String" -> decode_String(d)
      [] T[1] = "Cow<str>" -> borrow_decode_Cow(d)
      [] T[1] = "Rc<str>" -> borrow_decode_RcStr(d)
      [] OTHER -> borrow_decode(d, T)

-----------------------------------------------------------------------------
(* impl Encode for Vec<T>, VecDeque<T>, BTreeSet<T>, BTreeMap<K, V>, String *)

Wrote(w) == [w |-> w, res |-> "Ok"]

Failed(w, e) == [w |-> w, res |-> e]

\* VecWriter::write: self.inner.extend_from_slice(bytes); Ok(())
VecWriter_write(w, bytes) ==
    Wrote([w EXCEPT !.out = @ \o bytes, !.log = Append(@, <<"write", bytes, "Ok">>)])

\* Writer::write of a sink with room for cap bytes: the bytes whole, or an error
SinkWriter_write(w, bytes) ==
    IF Len(w.out) + Len(bytes) > Unwrap(w.cap)
    THEN Failed([w EXCEPT !.log = Append(@, <<"write", bytes, "UnexpectedEnd">>)],
                "UnexpectedEnd")
    ELSE VecWriter_write(w, bytes)

\* encoder.writer().write(bytes)
write(w, bytes) == IF w.cap = None THEN VecWriter_write(w, bytes) ELSE SinkWriter_write(w, bytes)

\* <u8 as Encode>::encode: the byte itself
encode_u8(w, b) == write(w, <<b>>)

\* enc::encode_slice_len: a small count is one byte on the wire
encode_slice_len(w, len) == write([w EXCEPT !.log = Append(@, <<"len", <<len>>, "Start">>)], <<len>>)

RECURSIVE SortedSeq_descending(_)
\* mutant: the iteration runs from the largest element down
SortedSeq_descending(S) ==
    IF S = {} THEN <<>>
    ELSE LET m == CHOOSE x \in S : \A y \in S : x >= y
         IN  <<m>> \o SortedSeq_descending(S \ {m})

RECURSIVE SortedSeq(_)
\* the elements of a set of integers in ascending order: BTreeSet::iter,
\* BTreeMap::iter
SortedSeq(S) ==
    IF S = {} THEN <<>>
    ELSE LET m == CHOOSE x \in S : \A y \in S : x <= y
         IN  <<m>> \o SortedSeq(S \ {m})

RECURSIVE encode(_, _, _)
RECURSIVE encode_items(_, _, _)
RECURSIVE encode_entries(_, _, _, _, _)

\* for item in self.iter() { item.encode(encoder)?; }
encode_items(w, T, items) ==
    IF items = <<>> THEN Wrote(w)
    ELSE LET e == encode(w, T, Head(items))
         IN  IF e.res # "Ok" THEN e ELSE encode_items(e.w, T, Tail(items))

\* mutant: the value of an entry is written before its key
encode_entries_value_first(w, K, V, map, keys) ==
    IF keys = <<>> THEN Wrote(w)
    ELSE LET v == encode(w, V, map[Head(keys)])
         IN  IF v.res # "Ok" THEN v
             ELSE LET k == encode(v.w, K, Head(keys))
                  IN  IF k.res # "Ok" THEN k
                      ELSE encode_entries(k.w, K, V, map, Tail(keys))

\* for (key, val) in self.iter() { key.encode(encoder)?; val.encode(encoder)?; }
encode_entries(w, K, V, map, keys) ==
    IF keys = <<>> THEN Wrote(w)
    ELSE LET k == encode(w, K, Head(keys))
         IN  IF k.res # "Ok" THEN k
             ELSE LET v == encode(k.w, V, map[Head(keys)])
                  IN  IF v.res # "Ok" THEN v
                      ELSE encode_entries(v.w, K, V, map, Tail(keys))


\* the branch of Vec<T>::encode taken when T is u8: the slice in one write
encode_Vec_fast(w, v) == write(w, v)

encode_Vec(w, T, v) ==
    LET l == encode_slice_len(w, Len(v))
    IN  IF l.res # "Ok" THEN l
        ELSE IF type_equal_u8(T) THEN encode_Vec_fast(l.w, v)
             ELSE encode_items(l.w, T, v)

\* item.encode(encoder), by the impl of T
encode(w, T, v) ==
    CASE T[1] = "u8" -> encode_u8(w, v)
      [] T[1] = "Vec" -> encode_Vec(w, T[2], v)

\* mutant: the two slices of the ring buffer are written back to front
encode_VecDeque_fast_swapped(w, v) ==
    LET a == write(w, v.back)
    IN  IF a.res # "Ok" THEN a ELSE write(a.w, v.front)

\* the branch of VecDeque<T>::encode taken when T is u8: as_slices(), and
\* one write for each
encode_VecDeque_fast(w, v) ==
    LET a == write(w, v.front)
    IN  IF a.res # "Ok" THEN a ELSE write(a.w, v.back)

encode_VecDeque(w, T, v) ==
    LET l == encode_slice_len(w, Len(v.front) + Len(v.back))
    IN  IF l.res # "Ok" THEN l
        ELSE IF type_equal_u8(T) THEN encode_VecDeque_fast(l.w, v)
             ELSE encode_items(l.w, T, v.front \o v.back)

encode_BTreeSet(w, T, v) ==
    LET l == encode_slice_len(w, Cardinality(v))
    IN  IF l.res # "Ok" THEN l ELSE encode_items(l.w, T, SortedSeq(v))

encode_BTreeMap(w, K, V, v) ==
    LET l == encode_slice_len(w, Cardinality(DOMAIN v))
    IN  IF l.res # "Ok" THEN l ELSE encode_entries(l.w, K, V, v, SortedSeq(DOMAIN v))

\* <[u8] as Encode>::encode: the length, then the bytes
encode_slice_u8(w, bytes) ==
    LET l == encode_slice_len(w, Len(bytes))
    IN  IF l.res # "Ok" THEN l ELSE write(l.w, bytes)

\* self.as_bytes().encode(encoder)
encode_String(w, v) == encode_slice_u8(w, v)

\* value.encode(encoder) for the types that are encoded as a whole value only
encode_value(w, T, v) ==
    CASE T[1] = "VecDeque" -> encode_VecDeque(w, T[2], v)
      [] T[1] = "BTreeSet" -> encode_BTreeSet(w, T[2], v)
      [] T[1] = "BTreeMap" -> encode_BTreeMap(w, T[2], T[3], v)
      [] T[1] = "String" -> encode_String(w, v)
      [] OTHER -> encode(w, T, v)

-----------------------------------------------------------------------------
(* Ghost history of the counter, read off the log of each call *)

NoHist == [ceiling |-> FALSE, overflow |-> FALSE, underflow |-> FALSE, poisoned |-> FALSE]

\* ceiling: a claim has failed on the limit; overflow: a claim has failed on
\* checked_add; underflow: an unclaim took more than the counter held;
\* poisoned: a claim has failed on the limit and no unclaim was made since
HistStep(h, e) ==
    CASE e[1] = "claim" /\ e[3] = "LimitExceeded" ->
             [h EXCEPT !.ceiling = TRUE, !.poisoned = TRUE]
      [] e[1] = "claim" /\ e[3] = "Overflow" -> [h EXCEPT !.overflow = TRUE]
      [] e[1] = "unclaim" ->
             [h EXCEPT !.underflow = @ \/ e[3] = "Underflow", !.poisoned = FALSE]
      [] OTHER -> h

RECURSIVE HistOf(_, _)
HistOf(h, lg) == IF lg = <<>> THEN h ELSE HistOf(HistStep(h, Head(lg)), Tail(lg))

Here == Dec(bytes_read, slice)

Snapshot == [bytes_read |-> bytes_read, slice |-> slice]

\* the decoder and the ghosts after a call that returned outcome o
Returns(o, c) ==
    /\ bytes_read' = o.d.bytes_read
    /\ slice' = o.d.slice
    /\ result' = o.res
    /\ value' = o.val
    /\ log' = o.d.log
    /\ call' = c
    /\ pre' = Snapshot
    /\ hist' = HistOf(hist, o.d.log)
    /\ UNCHANGED <<writer, subject, access, virtue>>

\* a panic unwinds through the caller: the decoder is gone
Alive == result # "Panic"

-----------------------------------------------------------------------------
(* The accountant driven directly: any sequence of claims and unclaims *)

\* DecoderImpl::new
Init ==
    /\ LIMIT \in DirectLimits
    /\ overflow_checks \in BOOLEAN
    /\ bytes_read = 0
    /\ slice = <<>>
    /\ context = 0
    /\ scopes = <<>>
    /\ call = [op |-> "new", n |-> 0, ty |-> <<>>]
    /\ result = "Ok"
    /\ value = <<>>
    /\ log = <<>>
    /\ pre = [bytes_read |-> 0, slice |-> <<>>]
    /\ hist = NoHist
    /\ writer = NoWriter
    /\ subject = <<>>
    /\ access = <<>>
    /\ NoVirtue

ClaimBytesRead(n) ==
    /\ Alive
    /\ scopes = <<>>
    /\ Returns(claim_bytes_read(Here, n), [op |-> "claim_bytes_read", n |-> n, ty |-> <<>>])
    /\ UNCHANGED <<LIMIT, overflow_checks, context, scopes>>

UnclaimBytesRead(n) ==
    /\ Alive
    /\ scopes = <<>>
    /\ Returns(unclaim_bytes_read(Here, n), [op |-> "unclaim_bytes_read", n |-> n, ty |-> <<>>])
    /\ UNCHANGED <<LIMIT, overflow_checks, context, scopes>>

Next ==
    \/ \E n \in Args : ClaimBytesRead(n)
    \/ \E n \in Args : UnclaimBytesRead(n)

Spec == Init /\ [][Next]_vars

LastEvent == log[Len(log)]

NoUnderflow == ~hist.underflow

(* C1, as stated: with a LIMIT of Some(L), bytes_read <= L in every state     *)
(* reached by claims and by unclaims that stay within the counter, the state  *)
(* a failed claim leaves behind included.                                     *)
C1_NeverAboveLimit ==
    (LIMIT # None /\ NoUnderflow) => bytes_read <= Unwrap(LIMIT)

(* C1, amended: bytes_read <= L for as long as no claim has failed on the     *)
(* ceiling (and no unclaim has underflowed); the claim that fails on the      *)
(* ceiling has stored the sum, so it leaves bytes_read = b + n > L.           *)
C1_WithinLimitUntilFailure ==
    /\ (LIMIT # None /\ NoUnderflow /\ ~hist.ceiling) => bytes_read <= Unwrap(LIMIT)
    /\ (LIMIT # None /\ call.op = "claim_bytes_read" /\ LastEvent[3] = "LimitExceeded")
            => /\ bytes_read = pre.bytes_read + call.n
               /\ bytes_read > Unwrap(LIMIT)

\* claims have filled the budget to the brim and an unclaim has given some back
C1_Witness ==
    /\ LIMIT # None /\ NoUnderflow /\ ~hist.ceiling
    /\ call.op = "unclaim_bytes_read" /\ call.n > 0
    /\ pre.bytes_read = Unwrap(LIMIT)
    /\ bytes_read < Unwrap(LIMIT)

(* C2: with a LIMIT of Some(L) and the counter at b, claim_bytes_read(n)      *)
(* returns LimitExceeded iff b + n overflows usize or b + n > L; otherwise    *)
(* it returns Ok and the counter is exactly b + n.                            *)
C2_ClaimVerdict ==
    (LIMIT # None /\ call.op = "claim_bytes_read") =>
        LET b == pre.bytes_read
            n == call.n
        IN  /\ result \in {"Ok", "LimitExceeded"}
            /\ (result = "LimitExceeded") <=> (b + n > UsizeMax \/ b + n > Unwrap(LIMIT))
            /\ (result = "Ok") => bytes_read = b + n

\* a claim on a counter already in use lands exactly on the limit and succeeds
C2_Witness ==
    /\ LIMIT # None /\ call.op = "claim_bytes_read"
    /\ result = "Ok" /\ call.n > 0 /\ pre.bytes_read > 0
    /\ bytes_read = Unwrap(LIMIT)

(* C7, as stated: once a claim has returned LimitExceeded, on the ceiling or  *)
(* on overflow, every later claim on the same decoder returns LimitExceeded.  *)
C7_FailureIsPermanent ==
    [][((hist.ceiling \/ hist.overflow) /\ call'.op = "claim_bytes_read")
           => result' = "LimitExceeded"]_vars

(* C7, amended: once a claim has failed on the ceiling, every later claim     *)
(* returns LimitExceeded for as long as no unclaim is made (the counter stays *)
(* above L); a failure on overflow leaves the counter as it was and does not  *)
(* make later claims fail.                                                    *)
C7_FailsUntilUnclaim ==
    [][(hist.poisoned /\ call'.op = "claim_bytes_read")
           => (result' = "LimitExceeded" /\ bytes_read' > Unwrap(LIMIT))]_vars

\* a claim of nothing made after a ceiling failure fails too
C7_Witness ==
    /\ hist.poisoned /\ NoUnderflow
    /\ call.op = "claim_bytes_read" /\ call.n = 0
    /\ pre.bytes_read > Unwrap(LIMIT)
    /\ result = "LimitExceeded"

(* C8: without a LIMIT every claim returns Ok, whatever n, and neither claim  *)
(* nor unclaim touches bytes_read, which stays 0.                             *)
C8_NoLimitNoAccounting ==
    LIMIT = None =>
        /\ bytes_read = 0
        /\ call.op \in {"claim_bytes_read", "unclaim_bytes_read"} => result = "Ok"

\* usize::MAX has been claimed from a decoder without a limit
C8_Witness ==
    /\ LIMIT = None
    /\ call.op = "claim_bytes_read" /\ call.n = UsizeMax
    /\ result = "Ok" /\ bytes_read = 0

-----------------------------------------------------------------------------
(* The Context: nested decode calls and WithContext wrappers *)

Contexts == 0 .. MaxCtx

\* the innermost WithContext below position i of scopes, as an index, or 0
\* for the DecoderImpl itself
WrapperBelow(i) ==
    LET W == {j \in 1 .. i - 1 : scopes[j].kind = "WithContext"}
    IN  IF W = {} THEN 0 ELSE CHOOSE j \in W : \A k \in W : k <= j

\* the handle a nested decode holds: the innermost live WithContext, or 0
TopWrapper == WrapperBelow(Len(scopes) + 1)

\* mutant: WithContext::context delegates to the decoder it wraps, as its
\* other methods do
ContextCell_delegated == WrapperBelow(TopWrapper)

\* the cell context() of the handle borrows: WithContext::context returns the
\* wrapper's own field, DecoderImpl::context the decoder's
ContextCell == TopWrapper

\* what decoder.context() of the handle reads
CurrentContext == IF ContextCell = 0 THEN context ELSE scopes[ContextCell].context

InitCtx ==
    /\ LIMIT \in {None, Some(MaxWrapArg)}
    /\ overflow_checks \in BOOLEAN
    /\ bytes_read = 0
    /\ slice = [i \in 1 .. MaxInputLen |-> i % (MaxByte + 1)]
    /\ context \in Contexts
    /\ scopes = <<>>
    /\ call = [op |-> "new", n |-> 0, ty |-> <<>>]
    /\ result = "Ok"
    /\ value = <<>>
    /\ log = <<>>
    /\ pre = [bytes_read |-> 0, slice |-> slice]
    /\ hist = NoHist
    /\ writer = NoWriter
    /\ subject = <<>>
    /\ access = <<>>
    /\ NoVirtue

\* the ghosts of a call that does not touch the budget or the reader
Noted(c) ==
    /\ call' = c
    /\ UNCHANGED <<LIMIT, overflow_checks, bytes_read, slice, result, value, log, pre, hist,
                 writer, subject, access, virtue>>

\* a nested T::decode(decoder) begins: the handle goes down by &mut, and the
\* entry remembers the context the callee was given
Call ==
    /\ result = "Ok"
    /\ Len(scopes) < MaxDepth
    /\ scopes' = Append(scopes, [kind |-> "call", context |-> CurrentContext])
    /\ Noted([op |-> "call", n |-> CurrentContext, ty |-> <<>>])
    /\ UNCHANGED context

\* the nested decode returns; n is the context it was given when it began
Return ==
    /\ scopes # <<>>
    /\ scopes[Len(scopes)].kind = "call"
    /\ scopes' = SubSeq(scopes, 1, Len(scopes) - 1)
    /\ Noted([op |-> "return", n |-> scopes[Len(scopes)].context, ty |-> <<>>])
    /\ UNCHANGED context

\* decoder.with_context(c): WithContext { decoder, context: c }
WithContext(c) ==
    /\ result = "Ok"
    /\ Len(scopes) < MaxDepth
    /\ scopes' = Append(scopes, [kind |-> "WithContext", context |-> c])
    /\ Noted([op |-> "with_context", n |-> c, ty |-> <<>>])
    /\ UNCHANGED context

\* the wrapper goes out of scope
DropWithContext ==
    /\ scopes # <<>>
    /\ scopes[Len(scopes)].kind = "WithContext"
    /\ scopes' = SubSeq(scopes, 1, Len(scopes) - 1)
    /\ Noted([op |-> "drop", n |-> scopes[Len(scopes)].context, ty |-> <<>>])
    /\ UNCHANGED context

\* *decoder.context() = c, through the handle
SetContext(c) ==
    /\ result = "Ok"
    /\ IF ContextCell = 0
       THEN context' = c /\ UNCHANGED scopes
       ELSE scopes' = [scopes EXCEPT ![ContextCell].context = c] /\ UNCHANGED context
    /\ Noted([op |-> "context", n |-> c, ty |-> <<>>])

RECURSIVE handle_claim_bytes_read(_, _, _)
RECURSIVE handle_unclaim_bytes_read(_, _, _)
RECURSIVE handle_read(_, _, _)

\* mutant: a WithContext counts its claims in a budget of its own
handle_claim_bytes_read_own(i, d, n) ==
    IF i = 0 THEN claim_bytes_read(d, n)
    ELSE LET o == claim_bytes_read([d EXCEPT !.bytes_read = 0], n)
         IN  [o EXCEPT !.d.bytes_read = d.bytes_read]

\* claim_bytes_read on handle i of decoder d: WithContext (i > 0) calls
\* self.decoder.claim_bytes_read(n), the DecoderImpl (i = 0) its own method
handle_claim_bytes_read(i, d, n) ==
    IF i = 0 THEN claim_bytes_read(d, n)
    ELSE handle_claim_bytes_read(WrapperBelow(i), d, n)

\* unclaim_bytes_read on handle i: self.decoder.unclaim_bytes_read(n)
handle_unclaim_bytes_read(i, d, n) ==
    IF i = 0 THEN unclaim_bytes_read(d, n)
    ELSE handle_unclaim_bytes_read(WrapperBelow(i), d, n)

\* reader() on handle i is self.decoder.reader(): the read is made on the
\* reader of the DecoderImpl
handle_read(i, d, n) ==
    IF i = 0 THEN read(d, n)
    ELSE handle_read(WrapperBelow(i), d, n)

\* a method of the handle has run and left the DecoderImpl as o.d
Delegated(o, c) ==
    /\ bytes_read' = o.d.bytes_read
    /\ slice' = o.d.slice
    /\ result' = o.res
    /\ call' = c
    /\ UNCHANGED <<LIMIT, overflow_checks, value, log, pre, hist, writer, subject, access, virtue>>

\* decoder.claim_bytes_read(n) through the handle
HandleClaim(n) ==
    /\ result = "Ok"
    /\ Delegated(handle_claim_bytes_read(TopWrapper, Here, n),
                 [op |-> "claim_bytes_read", n |-> n, ty |-> <<>>])
    /\ UNCHANGED <<context, scopes>>

\* decoder.unclaim_bytes_read(n) through the handle; a decode refunds no more
\* than it has claimed
HandleUnclaim(n) ==
    /\ result = "Ok"
    /\ LIMIT # None => n <= bytes_read
    /\ Delegated(handle_unclaim_bytes_read(TopWrapper, Here, n),
                 [op |-> "unclaim_bytes_read", n |-> n, ty |-> <<>>])
    /\ UNCHANGED <<context, scopes>>

\* decoder.reader().read(&mut [0; n]) through the handle
HandleRead(n) ==
    /\ result = "Ok"
    /\ Delegated(handle_read(TopWrapper, Here, n), [op |-> "read", n |-> n, ty |-> <<>>])
    /\ UNCHANGED <<context, scopes>>

NextCtx ==
    \/ Call
    \/ Return
    \/ \E c \in Contexts : WithContext(c)
    \/ DropWithContext
    \/ \E c \in Contexts : SetContext(c)
    \/ \E n \in 0 .. MaxWrapArg : HandleClaim(n)
    \/ \E n \in 0 .. MaxWrapArg : HandleUnclaim(n)
    \/ \E n \in 0 .. MaxWrapArg : HandleRead(n)

SpecCtx == InitCtx /\ [][NextCtx]_vars

(* C10: a mutation a nested decode makes through decoder.context() is what    *)
(* the caller reads after the call has returned; and while a WithContext is   *)
(* alive context() is the wrapper's own context, so nothing done through the  *)
(* wrapper (context mutation, claim, unclaim, nested calls) changes the       *)
(* context of the decoder it wraps.                                           *)
C10_ContextThreading ==
    [][/\ call'.op = "context" => CurrentContext' = call'.n
       /\ call'.op = "return" => CurrentContext' = CurrentContext
       /\ TopWrapper # 0 =>
              /\ context' = context
              /\ \A i \in 1 .. TopWrapper - 1 : scopes'[i] = scopes[i]]_vars

\* inside a wrapper a nested call has changed the context it was given: the
\* caller reads the new value, and the wrapped decoder's context is another
C10_Witness ==
    /\ call.op = "return"
    /\ TopWrapper # 0
    /\ CurrentContext # call.n
    /\ context = call.n

\* the DecoderImpl as the direct call would leave it
Direct(o) ==
    /\ bytes_read' = o.d.bytes_read
    /\ slice' = o.d.slice
    /\ result' = o.res

(* C11: a WithContext has no budget and no stream of its own.  Every          *)
(* claim_bytes_read, unclaim_bytes_read and read made through a handle, at    *)
(* any depth of wrappers, leaves bytes_read, the reader position and the      *)
(* verdict as the same call made directly on the DecoderImpl would; making    *)
(* and dropping wrappers, nested calls and context writes leave bytes_read    *)
(* and the reader position alone.                                             *)
C11_WrapperSharesBudgetAndReader ==
    [][/\ call'.op = "claim_bytes_read" => Direct(claim_bytes_read(Here, call'.n))
       /\ call'.op = "unclaim_bytes_read" => Direct(unclaim_bytes_read(Here, call'.n))
       /\ call'.op = "read" => Direct(read(Here, call'.n))
       /\ call'.op \in {"call", "return", "with_context", "drop", "context"} =>
              /\ bytes_read' = bytes_read
              /\ slice' = slice
              /\ result' = result]_vars

\* under two wrappers, after bytes were read, a claim has hit the limit of
\* the DecoderImpl
C11_Witness ==
    /\ Len(scopes) >= 2
    /\ \A i \in 1 .. Len(scopes) : scopes[i].kind = "WithContext"
    /\ call.op = "claim_bytes_read"
    /\ result = "LimitExceeded"
    /\ Len(slice) < Len(pre.slice)

-----------------------------------------------------------------------------
(* Decoding containers from a slice: any input, any limit *)

DecodeTypes ==
    { VecOf(U8), BTreeSetOf(U8), BTreeMapOf(U8, U8), VecOf(VecOf(U8)), VecOf(BTreeSetOf(U8)) }

\* DecoderImpl::new over a slice reader
InitDecode ==
    /\ LIMIT \in Limits
    /\ overflow_checks \in BOOLEAN
    /\ bytes_read = 0
    /\ slice \in Inputs
    /\ context = 0
    /\ scopes = <<>>
    /\ call = [op |-> "new", n |-> 0, ty |-> <<>>]
    /\ result = "Ok"
    /\ value = <<>>
    /\ log = <<>>
    /\ pre = [bytes_read |-> 0, slice |-> slice]
    /\ hist = NoHist
    /\ writer = NoWriter
    /\ subject = <<>>
    /\ access = <<>>
    /\ NoVirtue

\* T::decode(&mut decoder)?: a failed decode is not followed by another
Decode(T) ==
    /\ result = "Ok"
    /\ scopes = <<>>
    /\ \E o \in {decode(Here, T)} : Returns(o, [op |-> "decode", n |-> 0, ty |-> T])
    /\ UNCHANGED <<LIMIT, overflow_checks, context, scopes>>

NextDecode == \E T \in DecodeTypes : Decode(T)

SpecDecode == InitDecode /\ [][NextDecode]_vars

-----------------------------------------------------------------------------
(* The wire format and the log, as the claims read them *)

\* the types of the items that follow a length prefix of len
ItemTypes(T, len) ==
    IF T[1] = "BTreeMap"
    THEN [i \in 1 .. 2 * len |-> IF i % 2 = 1 THEN T[2] ELSE T[3]]
    ELSE [i \in 1 .. len |-> T[2]]

RECURSIVE EncSize(_, _)
RECURSIVE ItemsSize(_, _)

\* the number of bytes the encoding of a T at the head of s takes, or -1 when
\* s does not start with a complete one
EncSize(s, T) ==
    IF s = <<>> THEN -1
    ELSE IF T[1] = "u8" THEN 1
    ELSE LET r == ItemsSize(Tail(s), ItemTypes(T, s[1]))
         IN  IF r < 0 THEN -1 ELSE 1 + r

ItemsSize(s, ts) ==
    IF ts = <<>> THEN 0
    ELSE LET h == EncSize(s, Head(ts))
         IN  IF h < 0 THEN -1
             ELSE LET r == ItemsSize(SubSeq(s, h + 1, Len(s)), Tail(ts))
                  IN  IF r < 0 THEN -1 ELSE h + r

\* the in-memory size of one element of the container T
ElemSize(T) == IF T[1] = "BTreeMap" THEN size_of_pair(T[2], T[3]) ELSE size_of(T[2])

EventsOf(kind) == {i \in 1 .. Len(log) : log[i][1] = kind}

RECURSIVE SumOver(_)
SumOver(I) == IF I = {} THEN 0 ELSE LET i == CHOOSE j \in I : TRUE IN log[i][2] + SumOver(I \ {i})

\* everything the claims of the last call that succeeded added up to
Claimed == SumOver({i \in EventsOf("claim") : log[i][3] = "Ok"})

\* everything the last call gave back
Refunded == SumOver(EventsOf("unclaim"))

\* the pre-claims of the loops the last call entered
LoopPreClaims == SumOver(EventsOf("loop"))

Decoded == call.op = "decode"

Consumed == Len(pre.slice) - Len(slice)

\* the last call ended in a failed container pre-claim
FailedAtPreClaim ==
    /\ result = "LimitExceeded"
    /\ \/ LastEvent[1] = "mul"
       \/ /\ LastEvent[1] = "claim"
          /\ Len(log) > 1
          /\ log[Len(log) - 1][1] = "container"

(* C3: under a LIMIT, a container whose declared length times the in-memory   *)
(* element size exceeds the budget left after the length prefix fails with    *)
(* LimitExceeded at the pre-claim: no element decoded, no loop iteration, no  *)
(* byte read after the prefix; and a Vec<u8> that fits decodes to its bytes.  *)
C3_PreClaimRejectsFirst ==
    /\ ( /\ Decoded /\ LIMIT # None /\ pre.slice # <<>>
         /\ pre.bytes_read + 1 <= Unwrap(LIMIT)
         /\ pre.slice[1] * ElemSize(call.ty) > Unwrap(LIMIT) - (pre.bytes_read + 1) )
       => /\ FailedAtPreClaim
          /\ value = <<>>
          /\ slice = Tail(pre.slice)
          /\ Cardinality(EventsOf("read")) = 1
          /\ EventsOf("iter") = {}
          /\ EventsOf("unclaim") = {}
    /\ ( /\ Decoded /\ LIMIT # None /\ pre.slice # <<>>
         /\ call.ty = VecOf(U8)
         /\ pre.slice[1] <= Len(pre.slice) - 1
         /\ pre.bytes_read + 1 + pre.slice[1] <= Unwrap(LIMIT) )
       => /\ result = "Ok"
          /\ value = <<SubSeq(pre.slice, 2, 1 + pre.slice[1])>>

\* the bytes of [1u8, 2] under a limit of 2: the pre-claim of 2 after the prefix fails
C3_Witness ==
    /\ Decoded /\ call.ty = VecOf(U8)
    /\ LIMIT = Some(2) /\ pre.bytes_read = 0 /\ pre.slice = <<2, 1, 2>>
    /\ result = "LimitExceeded" /\ slice = <<1, 2>>

(* C4, as stated: under a LIMIT of Some(L), a well-formed sequence whose true *)
(* total encoded size fits in L decodes successfully, whatever the coarse     *)
(* pre-claims come to.                                                        *)
C4_FitsThenSucceeds ==
    ( /\ Decoded /\ LIMIT # None
      /\ EncSize(pre.slice, call.ty) >= 0
      /\ pre.bytes_read + EncSize(pre.slice, call.ty) <= Unwrap(LIMIT) )
    => result = "Ok"

(* C4, amended: such a decode succeeds unless a container's coarse pre-claim  *)
(* by itself pushes bytes_read above L when it is made, and then it fails     *)
(* with LimitExceeded at that pre-claim; containers of single bytes, whose    *)
(* pre-claim is their true size, always succeed.  The refunds let a decode    *)
(* succeed whose claims summed without refund exceed L.                       *)
C4_FitsUnlessPreClaimOverruns ==
    ( /\ Decoded /\ LIMIT # None
      /\ EncSize(pre.slice, call.ty) >= 0
      /\ pre.bytes_read + EncSize(pre.slice, call.ty) <= Unwrap(LIMIT) )
    => /\ result = "Ok" \/ FailedAtPreClaim
       /\ call.ty[2] = U8 => result = "Ok"

\* a nested sequence has decoded although its claims, never refunded, exceed L
C4_Witness ==
    /\ Decoded /\ LIMIT # None /\ result = "Ok"
    /\ call.ty = VecOf(VecOf(U8))
    /\ value[1] # <<>> /\ value[1][1] # <<>>
    /\ pre.bytes_read + Claimed > Unwrap(LIMIT)

(* C5: after a successful container decode under a LIMIT the pre-claims of    *)
(* the loops are refunded in full: bytes_read is its value before the call    *)
(* plus what the length prefixes and the elements themselves claimed, which   *)
(* is the number of bytes consumed, and keeps no part of len * S.             *)
C5_PreClaimFullyRefunded ==
    (Decoded /\ LIMIT # None /\ result = "Ok")
    => /\ Refunded = LoopPreClaims
       /\ bytes_read = pre.bytes_read + Claimed - LoopPreClaims
       /\ bytes_read = pre.bytes_read + Consumed

\* a loop inside a loop: a Vec of one non-empty BTreeSet, under a limit
C5_Witness ==
    /\ Decoded /\ LIMIT # None /\ result = "Ok"
    /\ call.ty = VecOf(BTreeSetOf(U8))
    /\ Len(value[1]) = 1 /\ value[1][1] # {}
    /\ LoopPreClaims > SizeOfContainer

(* C6: no unclaim issued by a container decode underflows the counter, in     *)
(* nested containers and in loops cut short by an element error too.          *)
C6_RefundNeverUnderflows ==
    Decoded => /\ \A i \in EventsOf("unclaim") : log[i][3] = "Ok"
               /\ result # "Panic"
               /\ NoUnderflow

\* under a limit, a nested loop has refunded and then failed on an element
C6_Witness ==
    /\ Decoded /\ LIMIT # None
    /\ call.ty = VecOf(BTreeSetOf(U8))
    /\ result = "UnexpectedEnd"
    /\ Cardinality(EventsOf("unclaim")) >= 2

\* the events of the last call that are failures
Failures == {i \in 1 .. Len(log) : log[i][3] \in {"LimitExceeded", "Overflow", "UnexpectedEnd", "Underflow"}}

(* C12: a container decode is all or nothing.  When the length read, the      *)
(* pre-claim or an element fails, that failure is the last thing the decode   *)
(* did (no read, claim or unclaim follows it), the decode returns that error  *)
(* and no container; a decode that succeeds met no failure on the way.        *)
C12_AllOrNothing ==
    Decoded =>
        /\ result = "Ok" => Failures = {} /\ value # <<>>
        /\ result # "Ok" =>
               /\ Failures = {Len(log)}
               /\ value = <<>>
               /\ result = IF LastEvent[3] = "UnexpectedEnd" THEN "UnexpectedEnd"
                           ELSE "LimitExceeded"

\* a Vec of sets fails in its second element, after the first was decoded
C12_Witness ==
    /\ Decoded /\ call.ty = VecOf(BTreeSetOf(U8))
    /\ pre.slice # <<>> /\ pre.slice[1] >= 2
    /\ result # "Ok" /\ value = <<>>
    /\ Cardinality({i \in EventsOf("iter") : log[i][3] = "Vec"}) = 2
    /\ Cardinality({i \in EventsOf("iter") : log[i][3] = "BTreeSet"}) >= 1

\* Vec<u8> decoded by the generic loop: the else branch with T = u8
decode_Vec_generic(d, T) ==
    LET l == decode_slice_len(d)
    IN  IF l.res # "Ok" THEN Err(l.d, l.res) ELSE decode_Vec_loop(l.d, T, l.val[1])

ByLoop == decode_Vec_generic(Dec(pre.bytes_read, pre.slice), U8)

(* C9, as stated: Vec<u8> through the fast path and through the generic loop  *)
(* give the same outcome, the same sequence, the same number of bytes         *)
(* consumed and the same bytes_read, on every input and every LIMIT.          *)
C9_FastPathSameAsLoop ==
    (Decoded /\ call.ty = VecOf(U8))
    => /\ result = ByLoop.res
       /\ value = ByLoop.val
       /\ bytes_read = ByLoop.d.bytes_read
       /\ slice = ByLoop.d.slice

(* C9, amended: the two agree on the outcome, the sequence and bytes_read,    *)
(* and on the bytes consumed whenever the decode does not run out of input;   *)
(* when the input ends before len bytes the fast path has consumed the length *)
(* prefix only and the loop every byte there was.                             *)
C9_FastPathSameAsLoopButForInputLeft ==
    (Decoded /\ call.ty = VecOf(U8))
    => /\ result = ByLoop.res
       /\ value = ByLoop.val
       /\ bytes_read = ByLoop.d.bytes_read
       /\ result # "UnexpectedEnd" => slice = ByLoop.d.slice
       /\ result = "UnexpectedEnd" =>
              /\ ByLoop.d.slice = <<>>
              /\ slice = IF pre.slice = <<>> THEN <<>> ELSE Tail(pre.slice)

\* two bytes and more have come through the fast path under a limit
C9_Witness ==
    /\ Decoded /\ call.ty = VecOf(U8) /\ LIMIT # None
    /\ result = "Ok" /\ Len(value[1]) >= 2
    /\ bytes_read = pre.bytes_read + Consumed

-----------------------------------------------------------------------------
(* Encoding a value, then decoding what was written *)

EncodeTypes ==
    { VecOf(U8), VecDequeOf(U8), BTreeSetOf(U8), BTreeMapOf(U8, U8), StringT,
      VecOf(VecOf(U8)), VecDequeOf(VecOf(U8)) }

\* the two slices of a ring buffer holding at most MaxItems elements: the
\* second is empty when the first is
Rings(S) ==
    {[front |-> f, back |-> b] : f \in SeqsUpTo(S, MaxItems), b \in SeqsUpTo(S, MaxItems)}

VecDeques(S) ==
    {q \in Rings(S) : Len(q.front) + Len(q.back) <= MaxItems /\ (q.front = <<>> => q.back = <<>>)}

\* bytes that make well-formed and ill-formed UTF-8: ASCII, continuation
\* bytes, a two-byte lead
StrBytes == {0, 128, 191, 194}

ValuesOf(T) ==
    CASE T = VecOf(U8) -> SeqsUpTo(Bytes, MaxItems)
      [] T = VecDequeOf(U8) -> VecDeques(Bytes)
      [] T = BTreeSetOf(U8) -> SUBSET Bytes
      [] T = BTreeMapOf(U8, U8) -> UNION {[D -> Bytes] : D \in SUBSET Bytes}
      [] T = StringT -> {b \in SeqsUpTo(StrBytes, MaxItems) : from_utf8(b)}
      [] T = VecOf(VecOf(U8)) -> SeqsUpTo(SeqsUpTo(0 .. 1, 1), MaxItems)
      [] T = VecDequeOf(VecOf(U8)) -> VecDeques(SeqsUpTo(0 .. 1, 1))

\* an EncoderImpl over a VecWriter or a bounded sink, a value to encode
InitEncode ==
    /\ LIMIT = None
    /\ overflow_checks \in BOOLEAN
    /\ bytes_read = 0
    /\ slice = <<>>
    /\ context = 0
    /\ scopes = <<>>
    /\ \E T \in EncodeTypes :
           /\ call = [op |-> "new", n |-> 0, ty |-> T]
           /\ subject \in {<<v>> : v \in ValuesOf(T)}
    /\ result = "Ok"
    /\ value = <<>>
    /\ log = <<>>
    /\ pre = [bytes_read |-> 0, slice |-> <<>>]
    /\ hist = NoHist
    /\ writer \in {Writer(c) : c \in {None} \cup {Some(n) : n \in 0 .. MaxCap}}
    /\ access = <<>>
    /\ NoVirtue

\* value.encode(&mut encoder)
Encode ==
    /\ call.op = "new"
    /\ \E o \in {encode_value(writer, call.ty, subject[1])} :
           /\ writer' = o.w
           /\ result' = o.res
    /\ call' = [call EXCEPT !.op = "encode"]
    /\ UNCHANGED <<LIMIT, overflow_checks, bytes_read, slice, context, scopes,
                   value, log, pre, hist, subject, access, virtue>>

\* DecoderImpl::new over a slice reader of the bytes that were written
Load ==
    /\ call.op = "encode"
    /\ result = "Ok"
    /\ slice' = writer.out
    /\ bytes_read' = 0
    /\ call' = [call EXCEPT !.op = "load"]
    /\ UNCHANGED <<LIMIT, overflow_checks, context, scopes, result, value, log, pre, hist,
                   writer, subject, access, virtue>>

\* T::decode(&mut decoder) for the type that was encoded
DecodeWritten ==
    /\ call.op = "load"
    /\ \E o \in {decode_value(Here, call.ty)} : Returns(o, [call EXCEPT !.op = "decode"])
    /\ UNCHANGED <<LIMIT, overflow_checks, context, scopes>>

NextEncode == Encode \/ Load \/ DecodeWritten

SpecEncode == InitEncode /\ [][NextEncode]_vars

\* the elements of a sequence-like value in iteration order
Elements(T, v) == IF T[1] = "VecDeque" THEN v.front \o v.back ELSE v

(* C13: without a limit, decoding the bytes that encoding v wrote gives a     *)
(* value equal to v (a VecDeque by its elements, whatever its two slices) and *)
(* consumes exactly the bytes that were written.                              *)
C13_RoundTrip ==
    (Decoded /\ subject # <<>>)
    => /\ result = "Ok"
       /\ Elements(call.ty, value[1]) = Elements(call.ty, subject[1])
       /\ slice = <<>>
       /\ Consumed = Len(writer.out)

\* a ring buffer in two pieces has come back whole
C13_Witness ==
    /\ Decoded /\ call.ty = VecDequeOf(U8)
    /\ subject # <<>> /\ subject[1].back # <<>>
    /\ result = "Ok"
    /\ Len(value[1].front) = MaxItems

\* an encode has been made
Encoded == subject # <<>> /\ call.op # "new"

\* the elements of a set of integers, ascending
Ascending(S) ==
    CHOOSE q \in [1 .. Cardinality(S) -> S] : \A i, j \in DOMAIN q : i < j => q[i] < q[j]

RECURSIVE Flatten(_)
Flatten(ss) == IF ss = <<>> THEN <<>> ELSE Head(ss) \o Flatten(Tail(ss))

\* what the wire holds for a container of bytes: the count, then the elements
\* in iteration order, an entry of a map as its key and then its value
FlatWire(T, v) ==
    CASE T[1] = "BTreeSet" -> <<Cardinality(v)>> \o Ascending(v)
      [] T[1] = "BTreeMap" ->
             <<Cardinality(DOMAIN v)>>
                 \o Flatten([i \in 1 .. Cardinality(DOMAIN v) |->
                                <<Ascending(DOMAIN v)[i], v[Ascending(DOMAIN v)[i]]>>])
      [] OTHER -> <<Len(Elements(T, v))>> \o Elements(T, v)

\* what the wire holds for the value v of type T
Wire(T, v) ==
    IF T[1] \in {"Vec", "VecDeque"} /\ T[2] # U8
    THEN <<Len(Elements(T, v))>>
             \o Flatten([i \in 1 .. Len(Elements(T, v)) |-> FlatWire(T[2], Elements(T, v)[i])])
    ELSE FlatWire(T, v)

WriteFailures == {i \in 1 .. Len(writer.log) : writer.log[i][3] = "UnexpectedEnd"}

(* C15: a container encode writes the element count first, then the elements  *)
(* in iteration order and nothing else: a BTreeMap as key, value, key, value   *)
(* in ascending key order.  When a write fails the encode has written a proper *)
(* prefix of that, the failed write is the last call it made on the writer,    *)
(* and the error is returned.                                                  *)
C15_CountThenElementsInOrder ==
    Encoded =>
        /\ writer.log # <<>>
        /\ writer.log[1] = <<"len", <<Wire(call.ty, subject[1])[1]>>, "Start">>
        /\ call.op = "encode" /\ result = "Ok" =>
               /\ writer.out = Wire(call.ty, subject[1])
               /\ WriteFailures = {}
        /\ call.op = "encode" /\ result # "Ok" =>
               /\ result = "UnexpectedEnd"
               /\ WriteFailures = {Len(writer.log)}
               /\ Len(writer.out) < Len(Wire(call.ty, subject[1]))
               /\ writer.out = SubSeq(Wire(call.ty, subject[1]), 1, Len(writer.out))

\* a map of every key has been cut short in the middle of its entries
C15_Witness ==
    /\ Encoded /\ call.op = "encode" /\ call.ty = BTreeMapOf(U8, U8)
    /\ DOMAIN subject[1] = Bytes
    /\ result = "UnexpectedEnd"
    /\ Len(writer.out) = MaxCap

\* `?` on the length prefix l, then the else branch of Vec<T>::encode and
\* VecDeque<T>::encode: for item in self.iter() { item.encode(encoder)?; }
encode_loop_after(l, T, items) == IF l.res # "Ok" THEN l ELSE encode_items(l.w, T, items)

\* the encode of v by the generic loop, on a writer like the one that was used
EncodedByLoop ==
    encode_loop_after(encode_slice_len(Writer(writer.cap), Len(Elements(call.ty, subject[1]))),
                      U8, Elements(call.ty, subject[1]))

(* C16: for every Vec<u8> and every VecDeque<u8>, whatever its two slices,    *)
(* the bytes the byte-run write appends are the bytes the per-element loop    *)
(* appends after the same length prefix, in content and order; on a VecWriter *)
(* neither can fail.                                                          *)
C16_EncodeFastPathSameAsLoop ==
    (Encoded /\ call.op = "encode" /\ call.ty \in {VecOf(U8), VecDequeOf(U8)})
    => /\ writer.cap = None => result = "Ok"
       /\ result = "Ok" =>
              /\ EncodedByLoop.res = "Ok"
              /\ writer.out = EncodedByLoop.w.out

\* a ring buffer whose two slices differ has been written to a VecWriter
C16_Witness ==
    /\ Encoded /\ call.op = "encode" /\ call.ty = VecDequeOf(U8)
    /\ writer.cap = None /\ result = "Ok"
    /\ subject[1].back # <<>> /\ subject[1].back # subject[1].front
    /\ Len(writer.out) = MaxItems + 1

-----------------------------------------------------------------------------
(* Borrowing decode from a slice: any input, any limit *)

BorrowTypes ==
    { VecOf(U8), BTreeSetOf(U8), BTreeMapOf(U8, U8), VecOf(VecOf(U8)), VecOf(BTreeSetOf(U8)),
      StringT, CowStr, RcStr }

\* a length prefix and bytes that are and are not UTF-8
StrInputs == {<<n>> \o b : n \in 0 .. 2, b \in SeqsUpTo(StrBytes, 2)}

InitBorrow ==
    /\ LIMIT \in Limits
    /\ overflow_checks \in BOOLEAN
    /\ bytes_read = 0
    /\ slice \in Inputs \cup StrInputs
    /\ context = 0
    /\ scopes = <<>>
    /\ call = [op |-> "new", n |-> 0, ty |-> <<>>]
    /\ result = "Ok"
    /\ value = <<>>
    /\ log = <<>>
    /\ pre = [bytes_read |-> 0, slice |-> slice]
    /\ hist = NoHist
    /\ writer = NoWriter
    /\ subject = <<>>
    /\ access = <<>>
    /\ NoVirtue

\* T::borrow_decode(&mut decoder) on a decoder just made
BorrowDecode(T) ==
    /\ call.op = "new"
    /\ \E o \in {borrow_decode_value(Here, T)} :
           Returns(o, [op |-> "borrow_decode", n |-> 0, ty |-> T])
    /\ UNCHANGED <<LIMIT, overflow_checks, context, scopes>>

NextBorrow == \E T \in BorrowTypes : BorrowDecode(T)

SpecBorrow == InitBorrow /\ [][NextBorrow]_vars

\* the owned decode of the same type from the same bytes and counter
Owned == decode_value(Dec(pre.bytes_read, pre.slice), call.ty)

\* the text of a Cow, whichever variant holds it
CowText(T, v) == IF T = CowStr THEN v.str ELSE v

(* C14: borrow_decode and decode of the same type agree on every input and    *)
(* limit: the same error or equal values (a Cow::Borrowed equal to the        *)
(* Cow::Owned by its text), the same number of bytes consumed and the same    *)
(* bytes_read.                                                                *)
C14_BorrowAgreesWithOwned ==
    call.op = "borrow_decode"
    => /\ result = Owned.res
       /\ result = "Ok" => CowText(call.ty, value[1]) = CowText(call.ty, Owned.val[1])
       /\ slice = Owned.d.slice
       /\ bytes_read = Owned.d.bytes_read

\* a Cow has been borrowed from the input under a limit and the owned decode
\* makes an owned one of the same text
C14_Witness ==
    /\ call.op = "borrow_decode" /\ call.ty = CowStr
    /\ LIMIT # None /\ result = "Ok"
    /\ value[1].cow = "Borrowed" /\ Len(value[1].str) = 2
    /\ Owned.val[1].cow = "Owned"

-----------------------------------------------------------------------------
(* features/serde/de_owned.rs: SerdeDecoder, the serde Deserializer over a    *)
(* Decoder.  A request names the shape the caller declares; the visitor is    *)
(* the caller's, and every call made on it is written to the log.             *)

\* the fields of the tuples and structs the callers below declare
MaxFields == 2

AnyShape == <<"any">>
IdentifierShape == <<"identifier">>
IgnoredAnyShape == <<"ignored_any">>
UnitShape == <<"unit">>
UnitStructShape == <<"unit_struct">>
U8Shape == <<"u8">>
OptionShape(S) == <<"option", S>>
NewtypeStructShape(S) == <<"newtype_struct", S>>
SeqShape(S) == <<"seq", S>>
MapShape(K, V) == <<"map", K, V>>
TupleShape(len, S) == <<"tuple", len, S>>
TupleStructShape(len, S) == <<"tuple_struct", len, S>>
StructShape(len, S) == <<"struct", len, S>>
TupleVariantShape(len, S) == <<"tuple_variant", len, S>>
StructVariantShape(len, S) == <<"struct_variant", len, S>>

\* a call of the visitor's method name
visit(d, name) == Logged(d, <<"visit", 0, name>>)

\* <usize as Decode>::decode: a small count is one byte on the wire
decode_usize(d) == decode_slice_len(Logged(d, <<"usize", 0, "Start">>))

\* the variant a discriminant byte stands for
option_variant(o) ==
    IF o.res # "Ok" THEN o
    ELSE IF o.val[1] = 0 THEN Ok(o.d, None)
    ELSE IF o.val[1] = 1 THEN Ok(o.d, Some(<<>>))
    ELSE Err(Logged(o.d, <<"variant", o.val[1], "UnexpectedVariant">>), "UnexpectedVariant")

\* de::decode_option_variant: one discriminant byte, 0 is None and 1 is Some
decode_option_variant(d) == option_variant(decode_u8(Logged(d, <<"discriminant", 0, "Start">>)))

RECURSIVE deserialize(_, _)
RECURSIVE next_element_seed(_, _, _, _)
RECURSIVE next_key_seed(_, _, _, _, _)

\* visitor.visit_u8(v): the visitor of a primitive returns what it was given
visit_u8(o) == IF o.res # "Ok" THEN o ELSE Ok(visit(o.d, "visit_u8"), o.val[1])

\* SerdeDecoder::deserialize_u8
deserialize_u8(d) == visit_u8(decode_u8(d))

\* SerdeDecoder::deserialize_any
deserialize_any(d) == Err(d, "AnyNotSupported")

\* SerdeDecoder::deserialize_identifier
deserialize_identifier(d) == Err(d, "IdentifierNotSupported")

\* a bridge that skips what it is asked to ignore
deserialize_ignored_any_skips(d) == visit_u8(decode_u8(d))

\* SerdeDecoder::deserialize_ignored_any
deserialize_ignored_any(d) == Err(d, "IgnoredAnyNotSupported")

\* SerdeDecoder::deserialize_unit
deserialize_unit(d) == Ok(visit(d, "visit_unit"), <<>>)

\* SerdeDecoder::deserialize_unit_struct
deserialize_unit_struct(d) == Ok(visit(d, "visit_unit"), <<>>)

\* Option's visit_some: the payload it deserializes, in Some
some_of(e) == IF e.res # "Ok" THEN e ELSE Ok(e.d, Some(e.val[1]))

\* a bridge that hands the deserializer over whatever the discriminant read came to
visit_option_unchecked(o, S) ==
    IF o.val # <<>> /\ o.val[1] = None
    THEN Ok(visit(o.d, "visit_none"), None)
    ELSE some_of(deserialize(visit(o.d, "visit_some"), S))

\* deserialize_option after the discriminant: `?`, then visit_some(self) or visit_none()
visit_option(o, S) ==
    IF o.res # "Ok" THEN Err(o.d, o.res)
    ELSE IF o.val[1] # None
    THEN some_of(deserialize(visit(o.d, "visit_some"), S))
    ELSE Ok(visit(o.d, "visit_none"), None)

\* SerdeDecoder::deserialize_option
deserialize_option(d, S) == visit_option(decode_option_variant(d), S)

\* the newtype's visit_newtype_struct: the inner value, wrapped
deserialize_newtype_struct(d, S) == deserialize(visit(d, "visit_newtype_struct"), S)

\* `?` on an element, then the visitor keeps it and asks for the next
element_pushed(e, S, len, acc) ==
    IF e.res # "Ok" THEN Err(e.d, e.res)
    ELSE next_element_seed(e.d, S, len - 1, Append(acc, e.val[1]))

\* SeqAccess::next_element_seed, called by the visitor until it has them all:
\* an element while self.len > 0, then None
next_element_seed(d, S, len, acc) ==
    IF len > 0
    THEN element_pushed(deserialize(Logged(d, <<"element", len, "Some">>), S), S, len, acc)
    ELSE Ok(d, acc)

\* SerdeDecoder::deserialize_tuple: visitor.visit_seq(Access { len })
deserialize_tuple(d, len, S) == next_element_seed(visit(d, "visit_seq"), S, len, <<>>)

\* SerdeDecoder::deserialize_tuple_struct
deserialize_tuple_struct(d, len, S) == deserialize_tuple(d, len, S)

\* a bridge that reads the number of fields from the stream
struct_after_len(l, S) ==
    IF l.res # "Ok" THEN l ELSE deserialize_tuple(l.d, l.val[1], S)

deserialize_struct_reads_len(d, len, S) == struct_after_len(decode_usize(d), S)

\* SerdeDecoder::deserialize_struct: fields.len() elements
deserialize_struct(d, len, S) == deserialize_tuple(d, len, S)

\* VariantAccess::tuple_variant
tuple_variant(d, len, S) == deserialize_tuple(d, len, S)

\* VariantAccess::struct_variant: fields.len() elements
struct_variant(d, len, S) == deserialize_tuple(d, len, S)

\* deserialize_seq after the length: `?`, then deserialize_tuple(len, visitor)
seq_after_len(l, S) ==
    IF l.res # "Ok" THEN l ELSE deserialize_tuple(l.d, l.val[1], S)

\* SerdeDecoder::deserialize_seq
deserialize_seq(d, S) == seq_after_len(decode_usize(d), S)

\* MapAccess::next_value_seed, `?`, then the visitor inserts and asks for the next key
value_inserted(e, K, V, len, acc, k) ==
    IF e.res # "Ok" THEN Err(e.d, e.res)
    ELSE next_key_seed(e.d, K, V, len - 1, map_insert(acc, k, e.val[1]))

\* `?` on a key, then the visitor asks for its value
key_taken(e, K, V, len, acc) ==
    IF e.res # "Ok" THEN Err(e.d, e.res)
    ELSE value_inserted(deserialize(Logged(e.d, <<"entry_value", len, "Some">>), V),
                        K, V, len, acc, e.val[1])

\* MapAccess::next_key_seed, called by the visitor until it has them all
next_key_seed(d, K, V, len, acc) ==
    IF len > 0
    THEN key_taken(deserialize(Logged(d, <<"entry_key", len, "Some">>), K), K, V, len, acc)
    ELSE Ok(d, acc)

\* deserialize_map after the length: `?`, then visitor.visit_map(Access { len })
map_after_len(l, K, V) ==
    IF l.res # "Ok" THEN l
    ELSE next_key_seed(visit(l.d, "visit_map"), K, V, l.val[1], <<>>)

\* SerdeDecoder::deserialize_map
deserialize_map(d, K, V) == map_after_len(decode_usize(d), K, V)

\* the request the Deserialize impl of a value of shape S makes
deserialize(d, S) ==
    CASE S[1] = "any" -> deserialize_any(d)
      [] S[1] = "identifier" -> deserialize_identifier(d)
      [] S[1] = "ignored_any" -> deserialize_ignored_any(d)
      [] S[1] = "unit" -> deserialize_unit(d)
      [] S[1] = "unit_struct" -> deserialize_unit_struct(d)
      [] S[1] = "u8" -> deserialize_u8(d)
      [] S[1] = "option" -> deserialize_option(d, S[2])
      [] S[1] = "newtype_struct" -> deserialize_newtype_struct(d, S[2])
      [] S[1] = "seq" -> deserialize_seq(d, S[2])
      [] S[1] = "map" -> deserialize_map(d, S[2], S[3])
      [] S[1] = "tuple" -> deserialize_tuple(d, S[2], S[3])
      [] S[1] = "tuple_struct" -> deserialize_tuple_struct(d, S[2], S[3])
      [] S[1] = "struct" -> deserialize_struct(d, S[2], S[3])
      [] S[1] = "tuple_variant" -> tuple_variant(d, S[2], S[3])
      [] S[1] = "struct_variant" -> struct_variant(d, S[2], S[3])

\* the shapes the callers declare
Shapes ==
    { AnyShape, IdentifierShape, IgnoredAnyShape, UnitShape, UnitStructShape, U8Shape,
      OptionShape(U8Shape), OptionShape(SeqShape(U8Shape)), NewtypeStructShape(U8Shape),
      SeqShape(U8Shape), SeqShape(UnitShape), SeqShape(SeqShape(U8Shape)),
      MapShape(U8Shape, U8Shape),
      TupleShape(MaxFields, U8Shape), TupleStructShape(MaxFields, U8Shape),
      StructShape(MaxFields, U8Shape), StructShape(1, OptionShape(U8Shape)),
      TupleVariantShape(MaxFields, U8Shape), StructVariantShape(MaxFields, U8Shape) }

\* the longest input handed to the bridge
MaxSerdeLen == 3

\* DecoderImpl::new over a slice reader, for SerdeDecoder { de: &mut decoder }
InitSerde ==
    /\ LIMIT \in DirectLimits \cup {Some(MaxLimit)}
    /\ overflow_checks \in BOOLEAN
    /\ bytes_read = 0
    /\ slice \in SeqsUpTo(Bytes, MaxSerdeLen)
    /\ context = 0
    /\ scopes = <<>>
    /\ call = [op |-> "new", n |-> 0, ty |-> <<>>]
    /\ result = "Ok"
    /\ value = <<>>
    /\ log = <<>>
    /\ pre = [bytes_read |-> 0, slice |-> slice]
    /\ hist = NoHist
    /\ writer = NoWriter
    /\ subject = <<>>
    /\ access = <<>>
    /\ NoVirtue

\* T::deserialize(SerdeDecoder { de: &mut decoder })?: the Deserialize impl of
\* a value of shape S makes its request; one that fails is not followed by another
Deserialize(S) ==
    /\ result = "Ok"
    /\ \E o \in {deserialize(Here, S)} : Returns(o, [op |-> "deserialize", n |-> 0, ty |-> S])
    /\ UNCHANGED <<LIMIT, overflow_checks, context, scopes>>

NextSerde == \E S \in Shapes : Deserialize(S)

SpecSerde == InitSerde /\ [][NextSerde]_vars

\* the error each unsupported request is answered with
UnsupportedError(S) ==
    CASE S = AnyShape -> "AnyNotSupported"
      [] S = IdentifierShape -> "IdentifierNotSupported"
      [] S = IgnoredAnyShape -> "IgnoredAnyNotSupported"

Deserialized == call.op = "deserialize"

(* C17: deserialize_any, deserialize_identifier and deserialize_ignored_any   *)
(* fail with AnyNotSupported, IdentifierNotSupported, IgnoredAnyNotSupported, *)
(* whatever the decoder has read or claimed before; they read no byte, claim  *)
(* nothing and make no call on the visitor.                                   *)
C17_UnsupportedRequestsRejected ==
    (Deserialized /\ call.ty \in {AnyShape, IdentifierShape, IgnoredAnyShape})
    => /\ result = UnsupportedError(call.ty)
       /\ value = <<>>
       /\ slice = pre.slice
       /\ bytes_read = pre.bytes_read
       /\ log = <<>>

\* an ignore request refused by a decoder under a limit that has claimed and
\* read before and has input left to skip
C17_Witness ==
    /\ Deserialized /\ call.ty = IgnoredAnyShape
    /\ result = "IgnoredAnyNotSupported"
    /\ LIMIT # None /\ pre.bytes_read > 0 /\ Len(pre.slice) > 0

\* what reading one discriminant from the decoder as it was comes to
DiscriminantRead ==
    IF LIMIT # None /\ pre.bytes_read + 1 > Unwrap(LIMIT) THEN "LimitExceeded"
    ELSE IF pre.slice = <<>> THEN "UnexpectedEnd"
    ELSE IF Head(pre.slice) > 1 THEN "UnexpectedVariant"
    ELSE "Ok"

\* the decoder right after the discriminant byte
AfterDiscriminant ==
    Dec(IF LIMIT # None THEN pre.bytes_read + 1 ELSE pre.bytes_read, Tail(pre.slice))

\* the payload deserialized from there
Payload == deserialize(AfterDiscriminant, call.ty[2])

\* the visitor methods called, in order
Visits == [i \in 1 .. Cardinality(EventsOf("visit")) |->
              log[CHOOSE j \in EventsOf("visit") :
                      Cardinality({k \in EventsOf("visit") : k <= j}) = i][3]]

(* C18: deserialize_option reads one discriminant and no more.  When that     *)
(* read fails the request fails with its error and no visitor method is       *)
(* called.  On 0 visit_none is called and nothing after the discriminant is   *)
(* consumed.  On 1 visit_some is called and the payload is deserialized from  *)
(* the same decoder, from the byte after the discriminant on.                 *)
C18_OptionDiscriminantThenPayload ==
    (Deserialized /\ call.ty[1] = "option")
    => /\ Cardinality(EventsOf("discriminant")) = 1
       /\ DiscriminantRead # "Ok"
          => /\ result = DiscriminantRead
             /\ Visits = <<>>
             /\ value = <<>>
       /\ (DiscriminantRead = "Ok" /\ Head(pre.slice) = 0)
          => /\ result = "Ok"
             /\ value = <<None>>
             /\ Visits = <<"visit_none">>
             /\ slice = Tail(pre.slice)
             /\ bytes_read = AfterDiscriminant.bytes_read
       /\ (DiscriminantRead = "Ok" /\ Head(pre.slice) = 1)
          => /\ Visits # <<>> /\ Head(Visits) = "visit_some"
             /\ result = Payload.res
             /\ result = "Ok" => value = <<Some(Payload.val[1])>>
             /\ slice = Payload.d.slice
             /\ bytes_read = Payload.d.bytes_read
             /\ (result = "Ok" /\ call.ty[2] = U8Shape) => value = <<Some(pre.slice[2])>>

\* a present option read under a limit by a decoder that has read before: the
\* payload is the byte after the discriminant
C18_Witness ==
    /\ Deserialized /\ call.ty = OptionShape(U8Shape)
    /\ LIMIT # None /\ pre.bytes_read > 0
    /\ result = "Ok" /\ value = <<Some(2)>>
    /\ Visits = <<"visit_some", "visit_u8">>

\* core::mem::size_of of the value a shape deserializes to
size_of_shape(S) ==
    CASE S[1] = "u8" -> SizeOfU8
      [] S[1] = "unit" -> 0
      [] OTHER -> SizeOfContainer

\* the length prefix was read: it was there and its byte fitted the limit
LenRead == pre.slice # <<>> /\ (LIMIT # None => pre.bytes_read + 1 <= Unwrap(LIMIT))

\* what the limit leaves once the length prefix is claimed
BudgetAfterLen == Unwrap(LIMIT) - (pre.bytes_read + 1)

\* the elements handed to the visitor
Elements_visited == EventsOf("element")

(* C19: a sequence deserialized under a LIMIT goes through the container      *)
(* protocol: once the length len is read a pre-claim for len elements is made *)
(* before the visitor receives an element, so a length whose elements exceed  *)
(* what the limit leaves fails with LimitExceeded with no element             *)
(* deserialized, and every element's share is refunded before that element.   *)
C19_SeqPreClaimsBeforeElements ==
    (Deserialized /\ call.ty[1] = "seq" /\ LIMIT # None /\ LenRead)
    => /\ Head(pre.slice) * size_of_shape(call.ty[2]) > BudgetAfterLen
          => result = "LimitExceeded" /\ Elements_visited = {}
       /\ \A i \in Elements_visited :
             /\ \E j \in EventsOf("container") : j < i
             /\ i > 1 /\ log[i - 1][1] = "unclaim"

\* a sequence whose declared elements exceed what the limit leaves: the visitor
\* was given an element, then the limit failed the next one
C19_Witness ==
    /\ Deserialized /\ call.ty = SeqShape(U8Shape)
    /\ LIMIT # None /\ LenRead
    /\ Head(pre.slice) * size_of_shape(U8Shape) > BudgetAfterLen
    /\ result = "LimitExceeded"
    /\ Visits = <<"visit_seq", "visit_u8">>
    /\ EventsOf("container") = {} /\ EventsOf("unclaim") = {}

\* the requests whose element count the caller declares
CountDeclared == {"tuple", "tuple_struct", "struct", "tuple_variant", "struct_variant"}

\* the elements, or the keys, the access was asked for
Asked == EventsOf("element") \cup EventsOf("entry_key")

\* the lengths read before the first element was asked for
LengthsBeforeElements == {i \in EventsOf("usize") : \A j \in Asked : i < j}

\* the first field deserialized from the decoder as the request found it
FirstField == deserialize(Dec(pre.bytes_read, pre.slice), call.ty[3])

(* C20: a tuple, tuple struct, struct, tuple variant or struct variant takes  *)
(* its element count from the caller and reads no length: the first bytes     *)
(* consumed are the first field's.  deserialize_seq and deserialize_map read  *)
(* exactly one length before the first element, and it is the count of the    *)
(* elements deserialized.  Unit and unit struct requests consume nothing.     *)
C20_CountFromShapeOrOneLength ==
    Deserialized
    => /\ call.ty[1] \in CountDeclared
          => /\ EventsOf("usize") = {}
             /\ Cardinality(Asked) <= call.ty[2]
             /\ result = "Ok"
                => /\ Len(value[1]) = call.ty[2]
                   /\ Cardinality(Asked) = call.ty[2]
                   /\ value[1][1] = FirstField.val[1]
             /\ (result = "Ok" /\ call.ty[3] = U8Shape)
                => /\ value[1] = SubSeq(pre.slice, 1, call.ty[2])
                   /\ slice = SubSeq(pre.slice, call.ty[2] + 1, Len(pre.slice))
       /\ call.ty[1] \in {"seq", "map"}
          => /\ Cardinality(LengthsBeforeElements) = 1
             /\ log[1][1] = "usize"
             /\ (result = "Ok" /\ call.ty[1] = "map")
                => Cardinality(EventsOf("entry_key")) = Head(pre.slice)
             /\ (result = "Ok" /\ call.ty[1] = "seq") => Len(value[1]) = Head(pre.slice)
             /\ (result = "Ok" /\ call.ty[2] = U8Shape /\ call.ty[1] = "seq")
                => value[1] = SubSeq(pre.slice, 2, Head(pre.slice) + 1)
       /\ call.ty[1] \in {"unit", "unit_struct"}
          => /\ result = "Ok"
             /\ slice = pre.slice
             /\ bytes_read = pre.bytes_read
             /\ log = <<<<"visit", 0, "visit_unit">>>>

\* a struct of MaxFields bytes read under a limit from input whose first byte,
\* taken for a length, would have announced that many elements
C20_Witness ==
    /\ Deserialized /\ call.ty = StructShape(MaxFields, U8Shape)
    /\ LIMIT # None /\ result = "Ok"
    /\ Head(pre.slice) = MaxFields
    /\ value[1][1] = MaxFields
    /\ Consumed = MaxFields

-----------------------------------------------------------------------------
(* The accountant on overflow *)

(* C29: a claim_bytes_read(n) whose sum bytes_read + n overflows usize fails  *)
(* with LimitExceeded and leaves bytes_read as it was before the call: the    *)
(* counter is not wrapped around, and the claim made next is judged against   *)
(* that unchanged total.                                                      *)
C29_OverflowLeavesCounter ==
    [][(LIMIT # None /\ call'.op = "claim_bytes_read")
           => /\ bytes_read + call'.n > UsizeMax
                 => result' = "LimitExceeded" /\ bytes_read' = bytes_read
              /\ (call.op = "claim_bytes_read" /\ LastEvent[3] = "Overflow")
                 => /\ bytes_read = pre.bytes_read
                    /\ (result' = "Ok") <=> (pre.bytes_read + call'.n <= Unwrap(LIMIT))]_vars

\* a claim on a counter in use has overflowed: the counter is what it was,
\* within the limit
C29_Witness ==
    /\ LIMIT # None /\ call.op = "claim_bytes_read"
    /\ LastEvent[3] = "Overflow" /\ result = "LimitExceeded"
    /\ pre.bytes_read > 0 /\ pre.bytes_read + call.n > UsizeMax
    /\ bytes_read = pre.bytes_read /\ bytes_read <= Unwrap(LIMIT)

-----------------------------------------------------------------------------
(* BTreeSet<u8> and BTreeMap<u8, u8> decoded from entries in any order, with  *)
(* repetitions                                                                *)

\* the longest run of entry bytes after the length prefix
MaxTreeInput == 4

TreeTypes == { BTreeSetOf(U8), BTreeMapOf(U8, U8) }

TreeInputs == {<<n>> \o b : n \in 0 .. MaxItems, b \in SeqsUpTo(Bytes, MaxTreeInput)}

\* DecoderImpl::new over a slice reader
InitTree ==
    /\ LIMIT \in {None} \cup {Some(l) : l \in 0 .. MaxLimit}
    /\ overflow_checks \in BOOLEAN
    /\ bytes_read = 0
    /\ slice \in TreeInputs
    /\ context = 0
    /\ scopes = <<>>
    /\ call = [op |-> "new", n |-> 0, ty |-> <<>>]
    /\ result = "Ok"
    /\ value = <<>>
    /\ log = <<>>
    /\ pre = [bytes_read |-> 0, slice |-> slice]
    /\ hist = NoHist
    /\ writer = NoWriter
    /\ subject = <<>>
    /\ access = <<>>
    /\ NoVirtue

\* bincode::decode_from_slice::<T>: one decode of a fresh decoder
DecodeTree(T) ==
    /\ call.op = "new"
    /\ \E o \in {decode(Here, T)} : Returns(o, [op |-> "decode", n |-> 0, ty |-> T])
    /\ UNCHANGED <<LIMIT, overflow_checks, context, scopes>>

NextTree == \E T \in TreeTypes : DecodeTree(T)

SpecTree == InitTree /\ [][NextTree]_vars

\* the declared length and the bytes after it
DeclaredLen == Head(pre.slice)

EntryBytes == Tail(pre.slice)

\* the bytes one entry takes: a key, or a key and a value
EntryWidth == IF call.ty[1] = "BTreeMap" THEN 2 ELSE 1

\* the entry in which key k occurs last
LastOf(k) == CHOOSE j \in 1 .. DeclaredLen :
                 /\ EntryBytes[2 * j - 1] = k
                 /\ \A i \in j + 1 .. DeclaredLen : EntryBytes[2 * i - 1] # k

(* C30: a BTreeSet or BTreeMap with declared length len decodes len entries   *)
(* from the stream, in whatever order and with whatever repetitions they      *)
(* come: the set holds the entries read, the map holds under every key read   *)
(* the value of its last occurrence, neither holds more than len entries, and *)
(* len element shares are refunded, one per entry read.                       *)
C30_TreeDecodesLenEntries ==
    (Decoded /\ call.ty \in TreeTypes /\ pre.slice # <<>>)
    => /\ (LIMIT = None /\ Len(EntryBytes) >= DeclaredLen * EntryWidth) => result = "Ok"
       /\ result = "Ok"
          => /\ Consumed = 1 + DeclaredLen * EntryWidth
             /\ Cardinality(EventsOf("read")) = 1 + DeclaredLen * EntryWidth
             /\ Cardinality(EventsOf("unclaim")) = DeclaredLen
             /\ \A i \in EventsOf("unclaim") : log[i][2] = EntryWidth * SizeOfU8
             /\ LIMIT # None => Refunded = DeclaredLen * EntryWidth * SizeOfU8
       /\ (result = "Ok" /\ call.ty[1] = "BTreeSet")
          => /\ value[1] = {EntryBytes[i] : i \in 1 .. DeclaredLen}
             /\ Cardinality(value[1]) <= DeclaredLen
       /\ (result = "Ok" /\ call.ty[1] = "BTreeMap")
          => /\ DOMAIN value[1] = {EntryBytes[2 * i - 1] : i \in 1 .. DeclaredLen}
             /\ \A k \in DOMAIN value[1] : value[1][k] = EntryBytes[2 * LastOf(k)]
             /\ Cardinality(DOMAIN value[1]) <= DeclaredLen

\* a map of two entries under one key, read under a limit: one entry is left,
\* with the later value, and two shares were refunded
C30_Witness ==
    /\ Decoded /\ call.ty = BTreeMapOf(U8, U8)
    /\ LIMIT # None /\ result = "Ok"
    /\ DeclaredLen = 2
    /\ EntryBytes[1] = EntryBytes[3] /\ EntryBytes[2] # EntryBytes[4]
    /\ Cardinality(DOMAIN value[1]) = 1
    /\ value[1][EntryBytes[1]] = EntryBytes[4]
    /\ Cardinality(EventsOf("unclaim")) = 2

-----------------------------------------------------------------------------
(* features/serde/de_owned.rs: the Access structs of deserialize_tuple and    *)
(* deserialize_map, one visitor call at a time.  An access is                 *)
(* [kind, len, shapes] with three ghost fields: created, the len it was made  *)
(* with; issued, the calls that reached the decoder; owed, a key was handed   *)
(* out and its value not asked for yet.                                       *)

Access(kind, len, shapes) ==
    [kind |-> kind, len |-> len, shapes |-> shapes,
     created |-> len, issued |-> 0, owed |-> FALSE]

\* what a call on an access comes to: the access after it and the outcome
Answer(a, o) == [a |-> a, o |-> o]

\* Ok(Some(value)) of an element, a key
some_value(e) == IF e.res # "Ok" THEN Err(e.d, e.res) ELSE Ok(e.d, Some(e.val[1]))

\* mutant: the count goes down only once the element has been decoded
SeqAccess_next_element_seed_late(a, d) ==
    IF a.len > 0
    THEN Answer([a EXCEPT !.len = IF deserialize(d, a.shapes[1]).res = "Ok" THEN @ - 1 ELSE @],
                some_value(deserialize(d, a.shapes[1])))
    ELSE Answer(a, Ok(d, None))

\* SeqAccess::next_element_seed for Access
SeqAccess_next_element_seed(a, d) ==
    IF a.len > 0
    THEN Answer([a EXCEPT !.len = @ - 1], some_value(deserialize(d, a.shapes[1])))
    ELSE Answer(a, Ok(d, None))

\* SeqAccess::size_hint for Access
SeqAccess_size_hint(a) == Some(a.len)

\* MapAccess::next_key_seed for Access
MapAccess_next_key_seed(a, d) ==
    IF a.len > 0
    THEN Answer([a EXCEPT !.len = @ - 1], some_value(deserialize(d, a.shapes[1])))
    ELSE Answer(a, Ok(d, None))

\* mutant: a value counts as an entry of its own
MapAccess_next_value_seed_counts(a, d) ==
    Answer([a EXCEPT !.len = IF @ > 0 THEN @ - 1 ELSE @], deserialize(d, a.shapes[2]))

\* MapAccess::next_value_seed for Access
MapAccess_next_value_seed(a, d) == Answer(a, deserialize(d, a.shapes[2]))

\* MapAccess::size_hint for Access
MapAccess_size_hint(a) == Some(a.len)

\* the shapes of the elements, the keys and the values asked for
ElementShapes == { U8Shape, UnitShape, OptionShape(U8Shape) }

\* DecoderImpl::new over a slice reader, for SerdeDecoder { de: &mut decoder }
InitAccess ==
    /\ LIMIT \in DirectLimits \cup {Some(MaxLimit)}
    /\ overflow_checks = TRUE
    /\ bytes_read = 0
    /\ slice \in SeqsUpTo(Bytes, MaxSerdeLen)
    /\ context = 0
    /\ scopes = <<>>
    /\ call = [op |-> "new", n |-> 0, ty |-> <<>>]
    /\ result = "Ok"
    /\ value = <<>>
    /\ log = <<>>
    /\ pre = [bytes_read |-> 0, slice |-> slice]
    /\ hist = NoHist
    /\ writer = NoWriter
    /\ subject = <<>>
    /\ access = <<>>
    /\ NoVirtue

\* the decoder, the access and the ghosts after a call that came to outcome o
\* and left the access as acc
Answered(o, c, acc) ==
    /\ bytes_read' = o.d.bytes_read
    /\ slice' = o.d.slice
    /\ result' = o.res
    /\ value' = o.val
    /\ log' = o.d.log
    /\ call' = c
    /\ pre' = Snapshot
    /\ hist' = HistOf(hist, o.d.log)
    /\ access' = acc
    /\ UNCHANGED <<LIMIT, overflow_checks, context, scopes, writer, subject, virtue>>

\* an access after a call that left it as a: the calls that reached the
\* decoder are counted, and a key handed out is owed its value
Noting(a, o, owed) ==
    <<[a EXCEPT !.issued = IF o.d.log # <<>> THEN @ + 1 ELSE @, !.owed = owed]>>

\* deserialize_tuple(len, visitor): visit_seq is entered with Access { len }
DeserializeTuple(len, S) ==
    /\ call.op = "new"
    /\ Answered(Unit(visit(Here, "visit_seq")),
                [op |-> "deserialize_tuple", n |-> len, ty |-> S],
                <<Access("seq", len, <<S>>)>>)

\* deserialize_seq(visitor): the length is read, then deserialize_tuple
DeserializeSeq(S) ==
    /\ call.op = "new"
    /\ \E l \in {decode_usize(Here)} :
           Answered(IF l.res = "Ok" THEN Unit(visit(l.d, "visit_seq")) ELSE l,
                    [op |-> "deserialize_seq", n |-> 0, ty |-> S],
                    IF l.res = "Ok" THEN <<Access("seq", l.val[1], <<S>>)>> ELSE <<>>)

\* deserialize_map(visitor): the length is read, visit_map is entered with Access { len }
DeserializeMap(K, V) ==
    /\ call.op = "new"
    /\ \E l \in {decode_usize(Here)} :
           Answered(IF l.res = "Ok" THEN Unit(visit(l.d, "visit_map")) ELSE l,
                    [op |-> "deserialize_map", n |-> 0, ty |-> <<K, V>>],
                    IF l.res = "Ok" THEN <<Access("map", l.val[1], <<K, V>>)>> ELSE <<>>)

\* the visitor calls seq.next_element()
NextElementSeed ==
    /\ access # <<>> /\ access[1].kind = "seq"
    /\ \E r \in {SeqAccess_next_element_seed(access[1], Here)} :
           Answered(r.o, [op |-> "next_element_seed", n |-> access[1].len, ty |-> access[1].shapes],
                    Noting(r.a, r.o, FALSE))

\* the visitor calls map.next_key(), owing no value
NextKeySeed ==
    /\ access # <<>> /\ access[1].kind = "map" /\ ~access[1].owed
    /\ \E r \in {MapAccess_next_key_seed(access[1], Here)} :
           Answered(r.o, [op |-> "next_key_seed", n |-> access[1].len, ty |-> access[1].shapes],
                    Noting(r.a, r.o, r.o.res = "Ok" /\ r.o.val[1] # None))

\* the visitor calls map.next_value() for the key it was handed
NextValueSeed ==
    /\ access # <<>> /\ access[1].kind = "map" /\ access[1].owed
    /\ \E r \in {MapAccess_next_value_seed(access[1], Here)} :
           Answered(r.o, [op |-> "next_value_seed", n |-> access[1].len, ty |-> access[1].shapes],
                    Noting(r.a, r.o, FALSE))

\* the visitor calls size_hint()
SizeHint ==
    /\ access # <<>>
    /\ Answered(Ok(Dec(bytes_read, slice),
                   IF access[1].kind = "seq" THEN SeqAccess_size_hint(access[1])
                                             ELSE MapAccess_size_hint(access[1])),
                [op |-> "size_hint", n |-> access[1].len, ty |-> access[1].shapes],
                access)

NextAccess ==
    \/ \E len \in 0 .. MaxFields, S \in ElementShapes : DeserializeTuple(len, S)
    \/ \E S \in ElementShapes : DeserializeSeq(S)
    \/ \E K \in {U8Shape}, V \in ElementShapes : DeserializeMap(K, V)
    \/ NextElementSeed
    \/ NextKeySeed
    \/ NextValueSeed
    \/ SizeHint

SpecAccess == InitAccess /\ [][NextAccess]_vars

\* the decoder is as the call found it
Untouched == bytes_read' = bytes_read /\ slice' = slice /\ log' = <<>>

(* C27: over any calls of next_element on a sequence access made with count   *)
(* len, each call made while the count is above 0 takes exactly 1 off it,     *)
(* whether the element decodes or fails, and the count never goes below 0; a  *)
(* call made at 0 returns None and does not touch the decoder; no more than   *)
(* len calls reach the decoder; size_hint is the count that remains.          *)
C27_SeqAccessCountsDown ==
    [][/\ call'.op = "next_element_seed"
          => /\ access[1].len > 0 => access'[1].len = access[1].len - 1
             /\ access[1].len = 0
                => /\ access'[1].len = 0
                   /\ result' = "Ok" /\ value' = <<None>>
                   /\ Untouched
             /\ access'[1].len >= 0
             /\ access'[1].issued <= access'[1].created
             /\ access'[1].len + access'[1].issued <= access'[1].created
       /\ (call'.op = "size_hint" /\ access[1].kind = "seq")
          => /\ result' = "Ok" /\ value' = <<Some(access[1].len)>>
             /\ access' = access
             /\ Untouched]_vars

\* an element has failed and taken one off the count all the same; the next
\* call found the count at 0 and returned None
C27_Witness ==
    /\ call.op = "next_element_seed" /\ call.n = 0
    /\ result = "Ok" /\ value = <<None>>
    /\ access[1].created = MaxFields
    /\ access[1].issued = MaxFields
    /\ hist.ceiling /\ LIMIT # None

\* the call came to what outcome o is
CameTo(o) ==
    /\ result' = o.res /\ value' = o.val
    /\ slice' = o.d.slice /\ bytes_read' = o.d.bytes_read

\* the lengths the call read
LengthsRead == {i \in 1 .. Len(log') : log'[i][1] = "usize"}

(* C21: deserialize_map reads the length once, before the visitor is handed   *)
(* the access, and no call on the access reads another.  A visitor that       *)
(* alternates next_key and next_value gets each key and each value decoded    *)
(* from the decoder where the call before left it, a key taking one off the   *)
(* count and a value leaving it; at count 0 next_key returns None and reads   *)
(* nothing, so no more than len keys and len values are decoded; size_hint is *)
(* the number of entries not started.                                         *)
C21_MapAccessAlternates ==
    [][/\ call'.op = "deserialize_map"
          => /\ Cardinality(LengthsRead) = 1
             /\ result' = "Ok"
                => /\ access' # <<>>
                   /\ access'[1].len = Head(slice) /\ slice' = Tail(slice)
                   /\ log'[Len(log')] = <<"visit", 0, "visit_map">>
             /\ result' # "Ok" => access' = <<>> /\ \A i \in 1 .. Len(log') : log'[i][1] # "visit"
       /\ call'.op = "next_key_seed"
          => /\ LengthsRead = {}
             /\ access[1].len > 0
                => /\ access'[1].len = access[1].len - 1
                   /\ CameTo(some_value(deserialize(Here, access[1].shapes[1])))
             /\ access[1].len = 0
                => /\ access'[1].len = 0
                   /\ result' = "Ok" /\ value' = <<None>>
                   /\ Untouched
       /\ call'.op = "next_value_seed"
          => /\ LengthsRead = {}
             /\ access[1].owed
             /\ access'[1].len = access[1].len
             /\ CameTo(deserialize(Here, access[1].shapes[2]))
       /\ (call'.op = "size_hint" /\ access[1].kind = "map")
          => /\ result' = "Ok" /\ value' = <<Some(access[1].len)>>
             /\ access' = access
             /\ Untouched
       /\ (access' # <<>> /\ access'[1].kind = "map")
          => /\ access'[1].len >= 0
             /\ access'[1].issued <= 2 * (access'[1].created - access'[1].len)
             /\ access'[1].owed => access'[1].issued < 2 * (access'[1].created - access'[1].len)]_vars

\* under a limit a map of one entry has given its key, then its value, and
\* next_key has returned None
C21_Witness ==
    /\ call.op = "next_key_seed" /\ call.n = 0
    /\ result = "Ok" /\ value = <<None>>
    /\ LIMIT # None /\ ~hist.ceiling
    /\ access[1].created = 1 /\ access[1].issued = 2
    /\ slice = <<>> /\ bytes_read = 3

-----------------------------------------------------------------------------
(* features/serde/de_owned.rs: deserialize_enum, EnumAccess and VariantAccess *)
(* for SerdeDecoder.  An enum is declared by the shapes of its variants, in   *)
(* the order of their indices.                                                *)

\* core::mem::size_of::<u32>()
SizeOfU32 == 4

UnitVariantShape == <<"unit_variant">>
NewtypeVariantShape(S) == <<"newtype_variant", S>>

\* u32::from_le_bytes
from_le_bytes(b) == b[1] + 256 * b[2] + 65536 * b[3] + 16777216 * b[4]

\* the u32 read once its bytes are claimed
u32_read(r) == IF r.res # "Ok" THEN r ELSE Ok(r.d, from_le_bytes(r.val[1]))

\* the claim of a u32, then its bytes
u32_claimed(c) == IF c.res # "Ok" THEN c ELSE u32_read(read(c.d, SizeOfU32))

\* <u32 as Decode>::decode: claim 4 bytes, then read them
decode_u32(d) == u32_claimed(claim_bytes_read(d, SizeOfU32))

\* seed.deserialize(idx.into_deserializer())?: the seed of the enum's visitor
\* knows the indices of its variants and refuses any other
seed_deserialize(o, variants) ==
    IF o.res # "Ok" THEN Err(o.d, o.res)
    ELSE IF o.val[1] + 1 \in DOMAIN variants
    THEN Ok(Logged(o.d, <<"seed", o.val[1], "Ok">>), o.val[1])
    ELSE Err(Logged(o.d, <<"seed", o.val[1], "Custom">>), "Custom")

\* EnumAccess::variant_seed
variant_seed(d, variants) ==
    seed_deserialize(decode_u32(Logged(d, <<"variant_index", 0, "Start">>)), variants)

\* mutant: a unit variant takes a byte of payload
unit_variant_reads(d) == deserialize_u8(d)

\* VariantAccess::unit_variant
unit_variant(d) == Ok(d, <<>>)

\* VariantAccess::newtype_variant_seed
newtype_variant_seed(d, S) == deserialize(d, S)

\* the call on the VariantAccess the visitor makes for a variant of shape V
variant_access(d, V) ==
    CASE V[1] = "unit_variant" -> unit_variant(Logged(d, <<"variant", 0, "unit_variant">>))
      [] V[1] = "newtype_variant" ->
             newtype_variant_seed(Logged(d, <<"variant", 0, "newtype_variant_seed">>), V[2])
      [] V[1] = "tuple_variant" ->
             tuple_variant(Logged(d, <<"variant", 0, "tuple_variant">>), V[2], V[3])
      [] V[1] = "struct_variant" ->
             struct_variant(Logged(d, <<"variant", 0, "struct_variant">>), V[2], V[3])

\* the enum value the visitor makes of a variant and its payload
variant_value(idx, e) ==
    IF e.res # "Ok" THEN Err(e.d, e.res) ELSE Ok(e.d, [variant |-> idx, payload |-> e.val[1]])

\* the enum's visit_enum: data.variant()?, then the call for that variant
visit_enum(o, variants) ==
    IF o.res # "Ok" THEN Err(o.d, o.res)
    ELSE variant_value(o.val[1], variant_access(o.d, variants[o.val[1] + 1]))

\* SerdeDecoder::deserialize_enum: visitor.visit_enum(self)
deserialize_enum(d, variants) ==
    visit_enum(variant_seed(visit(d, "visit_enum"), variants), variants)

\* the enums the callers declare
Enums ==
    { <<UnitVariantShape, NewtypeVariantShape(U8Shape), TupleVariantShape(MaxFields, U8Shape)>>,
      <<StructVariantShape(MaxFields, U8Shape), NewtypeVariantShape(OptionShape(U8Shape))>> }

\* inputs that open with a variant index, whole or cut short
EnumInputs ==
    {<<i, j, 0, 0>> \o p : i \in Bytes, j \in 0 .. 1, p \in SeqsUpTo(Bytes, MaxFields)}
        \cup SeqsUpTo(Bytes, SizeOfU32 - 1)

\* DecoderImpl::new over a slice reader, for SerdeDecoder { de: &mut decoder }
InitEnum ==
    /\ LIMIT \in {None} \cup {Some(l) : l \in 0 .. SizeOfU32 + MaxFields}
    /\ overflow_checks = TRUE
    /\ bytes_read = 0
    /\ slice \in EnumInputs
    /\ context = 0
    /\ scopes = <<>>
    /\ call = [op |-> "new", n |-> 0, ty |-> <<>>]
    /\ result = "Ok"
    /\ value = <<>>
    /\ log = <<>>
    /\ pre = [bytes_read |-> 0, slice |-> slice]
    /\ hist = NoHist
    /\ writer = NoWriter
    /\ subject = <<>>
    /\ access = <<>>
    /\ NoVirtue

\* T::deserialize(SerdeDecoder { de }) of an enum T: deserialize_enum
DeserializeEnum(variants) ==
    /\ call.op = "new"
    /\ \E o \in {deserialize_enum(Here, variants)} :
           Returns(o, [op |-> "deserialize_enum", n |-> 0, ty |-> variants])
    /\ UNCHANGED <<LIMIT, overflow_checks, context, scopes>>

NextEnum == \E variants \in Enums : DeserializeEnum(variants)

SpecEnum == InitEnum /\ [][NextEnum]_vars

\* what decoding the index from the decoder as it was comes to
IndexRead ==
    IF LIMIT # None /\ pre.bytes_read + SizeOfU32 > Unwrap(LIMIT) THEN "LimitExceeded"
    ELSE IF Len(pre.slice) < SizeOfU32 THEN "UnexpectedEnd"
    ELSE IF from_le_bytes(pre.slice) + 1 \notin DOMAIN call.ty THEN "Custom"
    ELSE "Ok"

\* the variant the index names
Chosen == call.ty[from_le_bytes(pre.slice) + 1]

\* the decoder right after the index
AfterIndex ==
    Dec(IF LIMIT # None THEN pre.bytes_read + SizeOfU32 ELSE pre.bytes_read,
        SubSeq(pre.slice, SizeOfU32 + 1, Len(pre.slice)))

\* the last call came to the payload o of the variant chosen
PayloadIs(o) ==
    /\ result = o.res
    /\ result = "Ok" => value = <<[variant |-> from_le_bytes(pre.slice), payload |-> o.val[1]]>>
    /\ slice = o.d.slice
    /\ bytes_read = o.d.bytes_read

(* C22: deserialize_enum decodes the variant index first, a u32 claimed as 4  *)
(* bytes, and hands it to the seed before anything of the payload is read.    *)
(* When the index decode or the seed fails no payload is read.  Otherwise a   *)
(* unit variant reads nothing more, a newtype variant decodes its payload     *)
(* from the byte after the index, and tuple and struct variants decode as     *)
(* deserialize_tuple does with the declared count, reading no length.         *)
C22_EnumIndexThenVariant ==
    call.op = "deserialize_enum"
    => /\ log[1] = <<"visit", 0, "visit_enum">>
       /\ log[2] = <<"variant_index", 0, "Start">>
       /\ log[3][1] = "claim" /\ log[3][2] = SizeOfU32
       /\ \A i \in EventsOf("claim") \cup EventsOf("read") \cup EventsOf("seed") : i >= 3
       /\ \A i \in EventsOf("seed") : \A j \in EventsOf("read") \ {4} : i < j
       /\ IndexRead # "Ok"
          => /\ result = IndexRead /\ value = <<>>
             /\ EventsOf("variant") = {}
             /\ EventsOf("read") \subseteq {4}
             /\ Consumed \in {0, SizeOfU32}
       /\ IndexRead = "Ok"
          => /\ Cardinality(EventsOf("seed")) = 1
             /\ Chosen[1] = "unit_variant"
                => PayloadIs(Ok(AfterIndex, <<>>)) /\ result = "Ok" /\ Consumed = SizeOfU32
             /\ Chosen[1] = "newtype_variant" => PayloadIs(deserialize(AfterIndex, Chosen[2]))
             /\ Chosen[1] \in {"tuple_variant", "struct_variant"}
                => /\ PayloadIs(deserialize_tuple(AfterIndex, Chosen[2], Chosen[3]))
                   /\ EventsOf("usize") = {}

\* under a limit the second variant of an enum, a newtype of one byte, is read:
\* the four bytes of the index, then the payload
C22_Witness ==
    /\ call.op = "deserialize_enum" /\ LIMIT # None /\ result = "Ok"
    /\ value[1].variant = 1 /\ call.ty[2] = NewtypeVariantShape(U8Shape)
    /\ value[1].payload = pre.slice[SizeOfU32 + 1]
    /\ Consumed = SizeOfU32 + 1
    /\ bytes_read = SizeOfU32 + 1

-----------------------------------------------------------------------------
(* virtue/src/parse/generics.rs: Generics::try_take and the takes of the      *)
(* three kinds of generic parameter.  A TokenTree is a string: a Punct is its *)
(* character, an Ident its name, and "()" is a parenthesised Group.           *)

\* the codec is not at work while virtue is
NoCodec ==
    /\ LIMIT = None
    /\ overflow_checks = TRUE
    /\ bytes_read = 0
    /\ slice = <<>>
    /\ context = 0
    /\ scopes = <<>>
    /\ log = <<>>
    /\ pre = [bytes_read |-> 0, slice |-> <<>>]
    /\ hist = NoHist
    /\ writer = NoWriter
    /\ access = <<>>

codec == <<LIMIT, overflow_checks, bytes_read, slice, context, scopes, log, pre, hist,
           writer, access>>

Puncts == {"<", ">", ",", "'", ":", "=", "-", "#", "!", ";", "+"}

Idents == {"T", "U", "N", "a", "b", "const", "where", "impl", "for", "type", "fn",
           "Foo", "Bar", "Baz", "Clone"}

\* matches!(t, TokenTree::Punct(_))
IsPunct(t) == t \in Puncts

\* matches!(t, TokenTree::Ident(_))
IsIdent(t) == t \in Idents

\* a TokenTree::Group, written as its two delimiters
Groups == {"()", "{}", "[]"}

IsGroup(t) == t \in Groups

\* the punct a group's delimiter stands for (utils::PUNCT_DELIMITER)
GroupOpen(t) == CASE t = "()" -> "(" [] t = "{}" -> "{" [] OTHER -> "["

\* what a take comes to: the stream after it, Ok or the error, the value
Parsed(in, v) == [input |-> in, res |-> "Ok", val |-> <<v>>]

ParseErr(in, e) == [input |-> in, res |-> e, val |-> <<>>]

\* utils::check_if_arrow: a '>' right after a '-' closes nothing
check_if_arrow(tokens, t) ==
    t = ">" /\ tokens # <<>> /\ tokens[Len(tokens)] = "-"

RECURSIVE read_tokens_loop(_, _, _, _)
\* the loop of utils::read_tokens_until_punct: tokens are taken until one of
\* the expected puncts shows outside every '<' '>' pair, which is left in the
\* stream, or until the stream ends
read_tokens_loop(in, expected, tokens, open) ==
    IF in = <<>> THEN Parsed(in, tokens)
    ELSE IF IsGroup(Head(in)) /\ open = 0 /\ GroupOpen(Head(in)) \in expected
    THEN Parsed(in, tokens)
    ELSE IF ~IsPunct(Head(in)) \/ check_if_arrow(tokens, Head(in))
    THEN read_tokens_loop(Tail(in), expected, Append(tokens, Head(in)), open)
    ELSE IF Head(in) = "<"
    THEN read_tokens_loop(Tail(in), expected, Append(tokens, Head(in)), open + 1)
    ELSE IF Head(in) = ">" /\ open > 0
    THEN read_tokens_loop(Tail(in), expected, Append(tokens, Head(in)), open - 1)
    ELSE IF Head(in) = ">"
    THEN IF ">" \in expected THEN Parsed(in, tokens) ELSE ParseErr(in, "InvalidRustSyntax")
    ELSE IF Head(in) \in expected /\ open = 0 THEN Parsed(in, tokens)
    ELSE read_tokens_loop(Tail(in), expected, Append(tokens, Head(in)), open)

\* utils::read_tokens_until_punct
read_tokens_until_punct(in, expected) == read_tokens_loop(in, expected, <<>>, 0)

\* utils::consume_punct_if
consume_punct_if(in, c) == IF in # <<>> /\ Head(in) = c THEN Tail(in) ELSE in

\* utils::assume_ident(input.next()): the ident, or a panic on anything else
assume_ident(in) ==
    IF in # <<>> /\ IsIdent(Head(in)) THEN Parsed(Tail(in), Head(in))
    ELSE ParseErr(IF in = <<>> THEN in ELSE Tail(in), "Panic")

\* Ok(Self { ident, constraint }) once the constraint is read
Lifetime_of(ident, c) ==
    IF c.res # "Ok" THEN c
    ELSE Parsed(c.input, [kind |-> "Lifetime", ident |-> ident, constraint |-> c.val[1]])

\* Lifetime::take after the '\'' and the ident
Lifetime_constraint(in, ident) ==
    IF in # <<>> /\ Head(in) = ":"
    THEN Lifetime_of(ident, read_tokens_until_punct(Tail(in), {",", ">"}))
    ELSE Lifetime_of(ident, Parsed(in, <<>>))

\* Lifetime::take: the stream opens with '\''
Lifetime_take(in) ==
    IF Len(in) > 1 /\ IsIdent(in[2])
    THEN Lifetime_constraint(Tail(Tail(in)), in[2])
    ELSE ParseErr(Tail(in), "ExpectedIdent")

\* Ok(Self { ident, constraints, default_value })
SimpleGeneric_of(ident, c, isDefault) ==
    IF c.res # "Ok" THEN c
    ELSE Parsed(c.input, [kind |-> "Generic", ident |-> ident,
                          constraints |-> IF isDefault THEN <<>> ELSE c.val[1],
                          default_value |-> IF isDefault THEN c.val[1] ELSE <<>>])

\* SimpleGeneric::take after the ident: punct_char is looked at once
SimpleGeneric_rest(in, ident) ==
    IF in # <<>> /\ Head(in) = ":"
    THEN SimpleGeneric_of(ident, read_tokens_until_punct(Tail(in), {">", ","}), FALSE)
    ELSE IF in # <<>> /\ Head(in) = "="
    THEN SimpleGeneric_of(ident, read_tokens_until_punct(Tail(in), {">", ","}), TRUE)
    ELSE SimpleGeneric_of(ident, Parsed(in, <<>>), FALSE)

\* SimpleGeneric::take
SimpleGeneric_after(i) ==
    IF i.res # "Ok" THEN i ELSE SimpleGeneric_rest(i.input, i.val[1])

SimpleGeneric_take(in) == SimpleGeneric_after(assume_ident(in))

\* Ok(Self { const_token, ident, constraints })
ConstGeneric_of(const_token, ident, c) ==
    IF c.res # "Ok" THEN c
    ELSE Parsed(c.input, [kind |-> "Const", const_token |-> const_token, ident |-> ident,
                          constraints |-> c.val[1]])

\* ConstGeneric::take after the two idents
ConstGeneric_rest(in, const_token, ident) ==
    IF in # <<>> /\ Head(in) = ":"
    THEN ConstGeneric_of(const_token, ident, read_tokens_until_punct(Tail(in), {">", ","}))
    ELSE ConstGeneric_of(const_token, ident, Parsed(in, <<>>))

ConstGeneric_ident(i, const_token) ==
    IF i.res # "Ok" THEN i ELSE ConstGeneric_rest(i.input, const_token, i.val[1])

ConstGeneric_const(c) ==
    IF c.res # "Ok" THEN c ELSE ConstGeneric_ident(assume_ident(c.input), c.val[1])

\* ConstGeneric::take
ConstGeneric_take(in) == ConstGeneric_const(assume_ident(in))

\* result.push(X::take(input)?.into()); consume_punct_if(input, ',')
pushed(g, gens) ==
    IF g.res # "Ok" THEN g
    ELSE [input |-> consume_punct_if(g.input, ","), res |-> "Continue",
          val |-> <<Append(gens, g.val[1])>>]

\* mutant: '>' is looked at but left in the stream
try_take_iteration_leaves_close(in, gens) ==
    IF in # <<>> /\ Head(in) = "'" THEN pushed(Lifetime_take(in), gens)
    ELSE IF in # <<>> /\ Head(in) = ">" THEN Parsed(in, Some(gens))
    ELSE IF in # <<>> /\ Head(in) = "const" THEN pushed(ConstGeneric_take(in), gens)
    ELSE IF in # <<>> /\ IsIdent(Head(in)) THEN pushed(SimpleGeneric_take(in), gens)
    ELSE ParseErr(in, "InvalidRustSyntax")

\* mutant: a stream that ends inside the list is taken as a closed list
try_take_iteration_ends_at_eof(in, gens) ==
    IF in = <<>> THEN Parsed(in, Some(gens))
    ELSE IF Head(in) = "'" THEN pushed(Lifetime_take(in), gens)
    ELSE IF Head(in) = ">" THEN Parsed(Tail(in), Some(gens))
    ELSE IF Head(in) = "const" THEN pushed(ConstGeneric_take(in), gens)
    ELSE IF IsIdent(Head(in)) THEN pushed(SimpleGeneric_take(in), gens)
    ELSE ParseErr(in, "InvalidRustSyntax")

\* one turn of the loop of Generics::try_take: Continue with the longer result,
\* Ok(Some(result)) on the break, or the error returned
try_take_iteration(in, gens) ==
    IF in # <<>> /\ Head(in) = "'" THEN pushed(Lifetime_take(in), gens)
    ELSE IF in # <<>> /\ Head(in) = ">" THEN Parsed(Tail(in), Some(gens))
    ELSE IF in # <<>> /\ Head(in) = "const" THEN pushed(ConstGeneric_take(in), gens)
    ELSE IF in # <<>> /\ IsIdent(Head(in)) THEN pushed(SimpleGeneric_take(in), gens)
    ELSE ParseErr(in, "InvalidRustSyntax")

\* how many parameters a generated generic list holds at most
MaxParams == 2

\* how long a free token stream is at most
MaxTokens == 3

\* a parameter as written in the source, with the kind and name it declares
Param(kind, ident, tokens) == [kind |-> kind, ident |-> ident, tokens |-> tokens]

Params ==
    { Param("Lifetime", "a", <<"'", "a">>),
      Param("Lifetime", "b", <<"'", "b", ":", "'", "a">>),
      Param("Generic", "T", <<"T">>),
      Param("Generic", "U", <<"U", ":", "Clone">>),
      Param("Generic", "T", <<"T", ":", "Foo", "<", "U", ",", "U", ">", "+", "Clone">>),
      Param("Generic", "U", <<"U", ":", "Foo", "()", "-", ">", "Bar">>),
      Param("Generic", "T", <<"T", "=", "()">>),
      Param("Const", "N", <<"const", "N", ":", "U">>) }

\* the tokens a free stream is made of
StreamTokens == {"<", ">", ",", "'", ":", "=", "const", "T", "()"}

\* what follows the generic list in the stream
Followers == {<<>>, <<"()">>, <<"where", "T", ":", "Clone">>}

\* the stream of a generic list: the parameters comma-separated, with or
\* without a trailing comma, closed by '>' or cut off before it
Written(ps, trailing, closed, tail) ==
    <<"<">>
        \o Flatten([i \in 1 .. Len(ps) |->
                       ps[i].tokens
                           \o (IF i < Len(ps) \/ trailing THEN <<",">> ELSE <<>>)])
        \o (IF closed THEN <<">">> ELSE <<>>)
        \o tail

\* the streams try_take is given, each with what it was written from
Sources ==
    { [stream |-> Written(ps, t, c, f), params |-> Some(ps), closed |-> c, tail |-> f] :
          ps \in SeqsUpTo(Params, MaxParams), t \in BOOLEAN, c \in BOOLEAN, f \in Followers }
    \cup { [stream |-> ts, params |-> None, closed |-> FALSE, tail |-> <<>>] :
               ts \in SeqsUpTo(StreamTokens, MaxTokens) }

InitGenerics ==
    /\ NoCodec
    /\ call = [op |-> "new", n |-> 0, ty |-> <<>>]
    /\ result = "Ok"
    /\ value = <<>>
    /\ \E src \in Sources :
           /\ subject = src
           /\ input = src.stream
    /\ generics = [pc |-> "idle", result |-> <<>>]
    /\ constraints = <<>>
    /\ impl_for = <<>>
    /\ generator = <<>>

\* Generics::try_take up to its loop: Ok(None) unless the stream opens with '<'
TryTake ==
    /\ generics.pc = "idle"
    /\ call' = [op |-> "try_take", n |-> 0, ty |-> <<>>]
    /\ IF input # <<>> /\ Head(input) = "<"
       THEN /\ input' = Tail(input)
            /\ generics' = [pc |-> "loop", result |-> <<>>]
            /\ UNCHANGED <<result, value>>
       ELSE /\ generics' = [pc |-> "done", result |-> <<>>]
            /\ result' = "Ok"
            /\ value' = <<None>>
            /\ UNCHANGED input
    /\ UNCHANGED <<codec, subject, constraints, impl_for, generator>>

\* what one turn of the loop leaves
Turned(o) ==
    /\ input' = o.input
    /\ call' = [op |-> "try_take", n |-> call.n + 1, ty |-> <<>>]
    /\ IF o.res = "Continue"
       THEN /\ generics' = [pc |-> "loop", result |-> o.val[1]]
            /\ UNCHANGED <<result, value>>
       ELSE /\ generics' = [pc |-> "done", result |-> generics.result]
            /\ result' = o.res
            /\ value' = o.val

\* one turn of the loop of Generics::try_take
TryTakeLoop ==
    /\ generics.pc = "loop"
    /\ \E o \in {try_take_iteration(input, generics.result)} : Turned(o)
    /\ UNCHANGED <<codec, subject, constraints, impl_for, generator>>

NextGenerics == TryTake \/ TryTakeLoop

SpecGenerics == InitGenerics /\ [][NextGenerics]_vars

SpecGenericsFair == SpecGenerics /\ WF_vars(NextGenerics)

\* the stream was written as a generic list that is closed and well formed
WellFormed ==
    /\ subject.params # None
    /\ subject.closed
    /\ subject.stream # <<"<", ",", ">">> \o subject.tail

\* the parameters the list was written from
Declared == Unwrap(subject.params)

\* the parameters try_take returned
Taken == Unwrap(value[1])

\* a token no parameter starts with stands where a parameter is looked for:
\* right after '<', or after the comma that ends the last written parameter
StrayAtStart ==
    \/ Len(subject.stream) > 1 /\ subject.stream[1] = "<"
           /\ ~IsIdent(subject.stream[2]) /\ subject.stream[2] \notin {"'", ">"}
    \/ subject.params # None /\ ~subject.closed /\ subject.tail = <<"()">>
           /\ subject.stream[Len(subject.stream) - 1] = ","

\* C23: Generics::try_take returns Ok(None) and consumes no token when the
\* stream is empty or does not open with '<'; given a written generic list it
\* consumes the list up to and including its closing '>' and returns one entry
\* per written parameter, in source order, of the written kind and name,
\* whatever constraints or default value the parameter carries; a token that
\* cannot start a parameter, where one is looked for, gives InvalidRustSyntax.
C23_TryTakeGenerics ==
    generics.pc = "done" =>
        /\ (subject.stream = <<>> \/ Head(subject.stream) # "<") =>
               result = "Ok" /\ value = <<None>> /\ input = subject.stream
        /\ WellFormed =>
               /\ result = "Ok"
               /\ value[1] # None
               /\ input = subject.tail
               /\ Len(Taken) = Len(Declared)
               /\ \A i \in 1 .. Len(Declared) :
                      /\ Taken[i].kind = Declared[i].kind
                      /\ Taken[i].ident = Declared[i].ident
        /\ StrayAtStart => result = "InvalidRustSyntax" /\ value = <<>>

\* a list of two parameters, one with a default value and one with
\* constraints, was taken and the where clause after it is still in the stream
C23_Witness ==
    /\ generics.pc = "done"
    /\ WellFormed
    /\ result = "Ok"
    /\ Len(Taken) = 2
    /\ Taken[1].kind = "Generic" /\ Taken[1].default_value # <<>>
    /\ Taken[2].kind = "Const" /\ Taken[2].constraints = <<"U">>
    /\ input = <<"where", "T", ":", "Clone">>

\* the stream opens a generic list and ends before any '>'
Unterminated ==
    /\ subject.stream # <<>>
    /\ Head(subject.stream) = "<"
    /\ \A i \in DOMAIN subject.stream : subject.stream[i] # ">"

\* the errors try_take returns
ErrorResults == {"InvalidRustSyntax", "ExpectedIdent"}

\* a `const` that no ident follows is in the stream
ConstWithoutIdent ==
    \E i \in DOMAIN subject.stream :
        /\ subject.stream[i] = "const"
        /\ i = Len(subject.stream) \/ ~IsIdent(subject.stream[i + 1])

\* C28 as stated: try_take on an unterminated generic list ends in an error
\* result.
C28_UnterminatedEndsInError ==
    (generics.pc = "done" /\ Unterminated) => result \in ErrorResults

\* C28, amended: every iteration of the loop of try_take takes at least one
\* token from the stream or ends the call, the call ends on every stream, and
\* on an unterminated generic list it ends in an error result or, where a
\* `const` is not followed by an ident, in the panic of assume_ident.
C28_TryTakeTerminates ==
    /\ [][generics.pc = "loop" => (Len(input') < Len(input) \/ generics'.pc = "done")]_vars
    /\ <>(generics.pc = "done")
    /\ []((generics.pc = "done" /\ Unterminated) =>
              \/ result \in ErrorResults
              \/ result = "Panic" /\ ConstWithoutIdent)

\* an unterminated list of two parameters ended in an error after its loop
\* had taken both
C28_Witness ==
    /\ generics.pc = "done"
    /\ Unterminated
    /\ result = "InvalidRustSyntax"
    /\ Len(generics.result) = 2
    /\ input = <<>>

-----------------------------------------------------------------------------
(* virtue/src/parse/generics.rs: GenericConstraints, the token list of a     *)
(* where clause, and the two ways of pushing a constraint onto it.           *)

\* how many constraints are pushed at most
MaxPushes == 2

\* GenericConstraints::try_take: Ok(None) unless the stream opens with `where`
GenericConstraints_some(c) ==
    IF c.res # "Ok" THEN c ELSE Parsed(c.input, Some(c.val[1]))

GenericConstraints_try_take(in) ==
    IF in # <<>> /\ Head(in) = "where"
    THEN GenericConstraints_some(read_tokens_until_punct(Tail(in), {"{", "("}))
    ELSE Parsed(in, None)

\* StreamBuilder::push_parsed of a string, given as the tokens it lexes to, or
\* as no tokens at all when it does not lex
push_parsed(builder, str) ==
    IF str = <<>> THEN ParseErr(builder, "LexError") ELSE Parsed(builder \o str, <<>>)

\* self.constraints.extend(builder.stream) once the builder holds the push
extended(cs, b) == IF b.res # "Ok" THEN [b EXCEPT !.input = cs] ELSE Parsed(cs \o b.input, <<>>)

\* GenericConstraints::push_constraint
push_constraint(cs, generic, constraint) ==
    extended(cs, push_parsed((IF cs # <<>> /\ cs[Len(cs)] # "," THEN <<",">> ELSE <<>>)
                                 \o <<generic.ident, ":">>,
                             constraint))

\* GenericConstraints::push_parsed_constraint
push_parsed_constraint(cs, constraint) ==
    extended(cs, push_parsed(IF cs # <<>> THEN <<",">> ELSE <<>>, constraint))

\* the sources GenericConstraints::try_take is given, from the where clause on
WhereSources ==
    { <<"{}">>,
      <<"where", "{}">>,
      <<"where", "T", ":", "Clone", "{}">>,
      <<"where", "T", ":", "Clone", ",", "{}">>,
      <<"where", "T", ":", "Clone", ",", "U", ":", "Foo", "<", "T", ",", "T", ">", "()">> }

\* the generics push_constraint is given
PushedGenerics ==
    { [kind |-> "Generic", ident |-> "U", constraints |-> <<>>, default_value |-> <<>>],
      [kind |-> "Generic", ident |-> "T", constraints |-> <<"Clone">>,
       default_value |-> <<>>] }

\* the constraint strings pushed: "Bar", "Foo + Clone", and one that does not lex
PushedBounds == {<<"Bar">>, <<"Foo", "+", "Clone">>, <<>>}

\* the parsed constraints pushed: "U: Bar", "'a: 'b", and one that does not lex
PushedConstraints == {<<"U", ":", "Bar">>, <<"'", "a", ":", "'", "b">>, <<>>}

InitConstraints ==
    /\ NoCodec
    /\ call = [op |-> "new", n |-> 0, ty |-> <<>>]
    /\ result = "Ok"
    /\ value = <<>>
    /\ input \in WhereSources
    /\ subject = input
    /\ generics = [pc |-> "idle", result |-> <<>>]
    /\ constraints = <<>>
    /\ impl_for = <<>>
    /\ generator = <<>>

\* GenericConstraints::try_take(source), and unwrap_or_default() of what it gives
TakeConstraints ==
    /\ generics.pc = "idle"
    /\ \E o \in {GenericConstraints_try_take(input)} :
           /\ input' = o.input
           /\ result' = o.res
           /\ value' = o.val
           /\ constraints' = IF o.res = "Ok" /\ o.val[1] # None THEN Unwrap(o.val[1]) ELSE <<>>
           /\ generics' = [pc |-> IF o.res = "Ok" THEN "taken" ELSE "done", result |-> <<>>]
    /\ call' = [op |-> "try_take", n |-> 0, ty |-> <<>>]
    /\ UNCHANGED <<codec, subject, impl_for, generator>>

\* what a push leaves
Pushing(o, op, arg) ==
    /\ constraints' = o.input
    /\ result' = o.res
    /\ value' = <<>>
    /\ call' = [op |-> op, n |-> call.n + 1, ty |-> arg]
    /\ UNCHANGED <<codec, subject, input, generics, impl_for, generator>>

\* constraints.push_constraint(generic, constraint)
PushConstraint(generic, constraint) ==
    /\ generics.pc = "taken"
    /\ call.n < MaxPushes
    /\ \E o \in {push_constraint(constraints, generic, constraint)} :
           Pushing(o, "push_constraint", constraint)

\* constraints.push_parsed_constraint(constraint)
PushParsedConstraint(constraint) ==
    /\ generics.pc = "taken"
    /\ call.n < MaxPushes
    /\ \E o \in {push_parsed_constraint(constraints, constraint)} :
           Pushing(o, "push_parsed_constraint", constraint)

\* constraints.clear()
ClearConstraints ==
    /\ generics.pc = "taken"
    /\ call.n < MaxPushes
    /\ constraints' = <<>>
    /\ result' = "Ok"
    /\ value' = <<>>
    /\ call' = [op |-> "clear", n |-> call.n + 1, ty |-> <<>>]
    /\ UNCHANGED <<codec, subject, input, generics, impl_for, generator>>

NextConstraints ==
    \/ TakeConstraints
    \/ \E g \in PushedGenerics, c \in PushedBounds : PushConstraint(g, c)
    \/ \E c \in PushedConstraints : PushParsedConstraint(c)
    \/ ClearConstraints

SpecConstraints == InitConstraints /\ [][NextConstraints]_vars

\* two commas stand side by side in the constraint token list
AdjacentCommas ==
    \E i \in 1 .. Len(constraints) - 1 : constraints[i] = "," /\ constraints[i + 1] = ","

\* C24: after any sequence of push_constraint and push_parsed_constraint on a
\* GenericConstraints, also one taken from a where clause that is empty or
\* ends with a comma, the constraint token list does not start with a comma
\* and holds no two adjacent commas.
C24_OneCommaBetweenConstraints ==
    /\ constraints # <<>> => Head(constraints) # ","
    /\ ~AdjacentCommas

\* a constraint was pushed by push_parsed_constraint onto a where clause that
\* ended with a comma, and two commas stand side by side
C24_Witness ==
    /\ call.op = "push_parsed_constraint"
    /\ result = "Ok"
    /\ subject = <<"where", "T", ":", "Clone", ",", "{}">>
    /\ constraints = <<"T", ":", "Clone", ",", ",", "U", ":", "Bar">>

-----------------------------------------------------------------------------
(* virtue/src/generate/impl_for.rs: ImplFor, the builder of one impl block,  *)
(* and the token stream its Drop appends to the parent generator.  A group   *)
(* of the generated stream is written as its opening delimiter, its content  *)
(* and its closing delimiter.                                                *)

\* how many builder calls are made on an ImplFor before it is dropped
MaxCalls == 3

\* StreamBuilder::group(delimiter, ..) around the stream the closure built
group(delimiter, stream) ==
    CASE delimiter = "Bracket" -> <<"[">> \o stream \o <<"]">>
      [] delimiter = "Brace" -> <<"{">> \o stream \o <<"}">>
      [] OTHER -> <<"(">> \o stream \o <<")">>

\* StreamBuilder::lifetime_str and StreamBuilder::lifetime
lifetime_str(lt) == <<"'", lt>>

RECURSIVE comma_separated(_, _)
\* the loops over `is_first`: a ',' before every item but the first
comma_separated(items, is_first) ==
    IF items = <<>> THEN <<>>
    ELSE (IF is_first THEN <<>> ELSE <<",">>)
             \o Head(items) \o comma_separated(Tail(items), FALSE)

\* Generic::has_constraints
has_constraints(g) ==
    CASE g.kind = "Lifetime" -> g.constraint # <<>>
      [] g.kind = "Generic" -> g.constraints # <<>>
      [] OTHER -> TRUE

\* Generic::constraints
constraints_of(g) == IF g.kind = "Lifetime" THEN g.constraint ELSE g.constraints

\* Generic::append_to_result_with_constraints
append_to_result_with_constraints(g) ==
    (CASE g.kind = "Lifetime" -> lifetime_str(g.ident)
       [] g.kind = "Generic" -> <<g.ident>>
       [] OTHER -> <<g.const_token, g.ident>>)
        \o (IF has_constraints(g) THEN <<":">> \o constraints_of(g) ELSE <<>>)

\* Generics::impl_generics_with_additional
impl_generics_with_additional(gens, lifetimes, types) ==
    <<"<">>
        \o comma_separated([i \in 1 .. Len(lifetimes) |-> lifetime_str(lifetimes[i])]
                               \o [i \in 1 .. Len(gens) |->
                                      append_to_result_with_constraints(gens[i])]
                               \o [i \in 1 .. Len(types) |-> <<types[i]>>],
                           TRUE)
        \o <<">">>

\* Generics::type_generics
type_generics(gens) ==
    <<"<">>
        \o Flatten([i \in 1 .. Len(gens) |->
                       (IF i > 1 THEN <<",">> ELSE <<>>)
                           \o (IF gens[i].kind = "Lifetime" THEN lifetime_str(gens[i].ident)
                               ELSE <<gens[i].ident>>)])
        \o <<">">>

\* GenericConstraints::where_clause
where_clause(cs) == <<"where">> \o cs

\* append_lifetimes_and_generics
append_lifetimes_and_generics(lifetimes, gens) ==
    IF lifetimes = <<>> /\ gens = <<>> THEN <<>>
    ELSE <<"<">>
             \o Flatten([i \in 1 .. Len(lifetimes) |->
                            (IF i > 1 THEN <<",">> ELSE <<>>) \o lifetime_str(lifetimes[i])])
             \o Flatten([i \in 1 .. Len(gens) |->
                            (IF i > 1 \/ lifetimes # <<>> THEN <<",">> ELSE <<>>)
                                \o <<gens[i]>>])
             \o <<">">>

\* ImplFor::new
ImplFor_new(type_name, trait_name) ==
    [outer_attr |-> <<>>, inner_attr |-> <<>>, type_name |-> type_name,
     trait_name |-> trait_name, lifetimes |-> None, trait_generics |-> None,
     impl_generics |-> <<>>, consts |-> <<>>, custom_generic_constraints |-> None,
     impl_types |-> <<>>, fns |-> <<>>]

\* a Parent: its generics(), its generic_constraints() and the stream it was
\* appended
Generator(gens, cs) == [generics |-> gens, generic_constraints |-> cs, stream |-> <<>>]

\* self.custom_generic_constraints.get_or_insert_with(|| ..cloned().unwrap_or_default())
get_or_insert_with(self, gen) ==
    IF self.custom_generic_constraints # None THEN Unwrap(self.custom_generic_constraints)
    ELSE IF gen.generic_constraints # None THEN Unwrap(gen.generic_constraints)
    ELSE <<>>

RECURSIVE push_new_lifetimes(_, _, _)
\* for new_lt in new_lt { constraints.push_parsed_constraint("'new: 'old").expect(..) }
push_new_lifetimes(cs, old, news) ==
    IF news = <<>> THEN cs
    ELSE push_new_lifetimes(
             push_parsed_constraint(
                 cs, lifetime_str(Head(news)) \o <<":">> \o lifetime_str(old)).input,
             old, Tail(news))

RECURSIVE depend_on(_, _, _)
\* for old_lt in generics.iter_lifetimes() { .. }
depend_on(cs, olds, news) ==
    IF olds = <<>> THEN cs
    ELSE depend_on(push_new_lifetimes(cs, Head(olds), news), Tail(olds), news)

\* Generics::iter_lifetimes, as the idents
iter_lifetimes(gens) ==
    [i \in 1 .. Len(SelectSeq(gens, LAMBDA g : g.kind = "Lifetime")) |->
        SelectSeq(gens, LAMBDA g : g.kind = "Lifetime")[i].ident]

\* ImplFor::with_lifetimes
with_lifetimes(self, lifetimes) == [self EXCEPT !.lifetimes = Some(lifetimes)]

\* ImplFor::new_lifetimes_depend_on_existing
new_lifetimes_depend_on_existing(self, gen) ==
    IF self.lifetimes # None /\ gen.generics # None
    THEN [self EXCEPT !.custom_generic_constraints =
              Some(depend_on(get_or_insert_with(self, gen),
                             iter_lifetimes(Unwrap(gen.generics)),
                             Unwrap(self.lifetimes)))]
    ELSE self

\* ImplFor::with_trait_generics
with_trait_generics(self, gens) == [self EXCEPT !.trait_generics = Some(gens)]

\* ImplFor::with_impl_generics
with_impl_generics(self, gens) == [self EXCEPT !.impl_generics = gens]

\* what a call on the ImplFor comes to: the ImplFor after it and its Result
Built(self, res) == [self |-> self, res |-> res]

\* self.outer_attr.push(builder) once the group is built
outer_attr_pushed(self, b) ==
    IF b.res # "Ok" THEN Built(self, b.res)
    ELSE Built([self EXCEPT !.outer_attr = Append(@, <<"#">> \o group("Bracket", b.input))],
               "Ok")

\* ImplFor::impl_outer_attr
impl_outer_attr(self, attr) == outer_attr_pushed(self, push_parsed(<<>>, attr))

\* self.inner_attr.push(builder) once the group is built
inner_attr_pushed(self, b) ==
    IF b.res # "Ok" THEN Built(self, b.res)
    ELSE Built([self EXCEPT !.inner_attr =
                    Append(@, <<"#", "!">> \o group("Brace", b.input))],
               "Ok")

\* ImplFor::impl_inner_attr
impl_inner_attr(self, attr) == inner_attr_pushed(self, push_parsed(<<>>, attr))

\* ImplFor::generate_const, and the GenConst pushing its stream onto consts
generate_const(self, name, ty, val) ==
    Built([self EXCEPT !.consts = Append(@, <<"const", name, ":", ty, "=", val, ";">>)], "Ok")

\* FnParent::append
append(self, fn_definition, fn_body) ==
    Built([self EXCEPT !.fns = Append(@, <<fn_definition, fn_body>>)], "Ok")

\* self.impl_types.push(builder) once the builder holds the type
impl_type_pushed(self, b) ==
    IF b.res # "Ok" THEN Built(self, b.res)
    ELSE Built([self EXCEPT !.impl_types = Append(@, b.input \o <<";">>)], "Ok")

impl_type_value(self, n, val) ==
    IF n.res # "Ok" THEN Built(self, n.res)
    ELSE impl_type_pushed(self, push_parsed(n.input \o <<"=">>, val))

\* ImplFor::impl_type
impl_type(self, name, val) == impl_type_value(self, push_parsed(<<"type">>, name), val)

\* cb(generics, constraints)? of modify_generic_constraints
modified(self, c) ==
    Built([self EXCEPT !.custom_generic_constraints = Some(c.input)], c.res)

\* ImplFor::modify_generic_constraints with a callback that pushes a
\* constraint on the first generic (push_constraint) or a parsed one
modify_generic_constraints(self, gen, cb) ==
    IF gen.generics = None THEN Built(self, "Ok")
    ELSE IF cb.op = "push_constraint"
    THEN modified(self, push_constraint(get_or_insert_with(self, gen), cb.generic, cb.arg))
    ELSE modified(self, push_parsed_constraint(get_or_insert_with(self, gen), cb.arg))

\* the impl generics of generate_impl_definition
impl_definition_generics(self, gen) ==
    IF self.lifetimes # None
    THEN IF gen.generics # None
         THEN impl_generics_with_additional(Unwrap(gen.generics), Unwrap(self.lifetimes),
                                            self.impl_generics)
         ELSE append_lifetimes_and_generics(Unwrap(self.lifetimes), self.impl_generics)
    ELSE IF gen.generics # None
    THEN impl_generics_with_additional(Unwrap(gen.generics), <<>>, self.impl_generics)
    ELSE IF self.impl_generics # <<>>
    THEN append_lifetimes_and_generics(<<>>, self.impl_generics)
    ELSE <<>>

\* as_deref().unwrap_or_default()
unwrap_or_default(o) == IF o = None THEN <<>> ELSE Unwrap(o)

\* the trait of generate_impl_definition
impl_definition_trait(self) ==
    IF self.trait_name = None THEN <<>>
    ELSE <<Unwrap(self.trait_name)>>
             \o append_lifetimes_and_generics(unwrap_or_default(self.lifetimes),
                                              unwrap_or_default(self.trait_generics))
             \o <<"for">>

\* the where clause of generate_impl_definition
impl_definition_where(self, gen) ==
    IF self.custom_generic_constraints # None
    THEN where_clause(Unwrap(self.custom_generic_constraints))
    ELSE IF gen.generic_constraints # None
    THEN where_clause(Unwrap(gen.generic_constraints))
    ELSE <<>>

\* ImplFor::generate_impl_definition
generate_impl_definition(self, gen) ==
    <<"impl">>
        \o impl_definition_generics(self, gen)
        \o impl_definition_trait(self)
        \o <<self.type_name>>
        \o (IF gen.generics # None THEN type_generics(Unwrap(gen.generics)) ELSE <<>>)
        \o impl_definition_where(self, gen)

\* mutant: the consts are written before the associated types
drop_body_consts_first(self) ==
    Flatten(self.inner_attr)
        \o Flatten(self.consts)
        \o Flatten(self.impl_types)
        \o Flatten([i \in 1 .. Len(self.fns) |->
                       self.fns[i][1] \o group("Brace", self.fns[i][2])])

\* the closure of the brace group of drop
drop_body(self) ==
    Flatten(self.inner_attr)
        \o Flatten(self.impl_types)
        \o Flatten(self.consts)
        \o Flatten([i \in 1 .. Len(self.fns) |->
                       self.fns[i][1] \o group("Brace", self.fns[i][2])])

\* <ImplFor as Drop>::drop: the builder handed to self.generator.append, or
\* nothing while the thread is panicking
drop(self, gen, panicking) ==
    IF panicking THEN <<>>
    ELSE Flatten(self.outer_attr)
             \o generate_impl_definition(self, gen)
             \o group("Brace", drop_body(self))

\* the generators an ImplFor is made on: for `struct Bar`, for `struct Bar<T>`
\* and for `struct Bar<'a, T: Clone, const N: U> where T: Clone,`
Generators ==
    { Generator(None, None),
      Generator(Some(<<[kind |-> "Generic", ident |-> "T", constraints |-> <<>>,
                        default_value |-> <<>>]>>),
                None),
      Generator(Some(<<[kind |-> "Lifetime", ident |-> "a", constraint |-> <<>>],
                       [kind |-> "Generic", ident |-> "T", constraints |-> <<"Clone">>,
                        default_value |-> <<>>],
                       [kind |-> "Const", const_token |-> "const", ident |-> "N",
                        constraints |-> <<"U">>]>>),
                Some(<<"T", ":", "Clone", ",">>)) }

\* the lists of lifetimes and of generics given to the with_ calls
LifetimeLists == {<<"b">>, <<"b", "c">>}

GenericLists == {<<"Baz">>, <<"Baz", "Qux">>}

\* the generics of the doc test of with_trait_generics
TraitGenericLists == {<<"Baz">>}

\* the attributes given: "inline", "cfg(test)" and one that does not lex
Attrs == {<<"inline">>, <<"cfg", "(", "test", ")">>, <<>>}

\* the outer attributes given
OuterAttrs == Attrs \ {<<>>}

\* the callbacks given to modify_generic_constraints
Callbacks ==
    { [op |-> "push_constraint",
       generic |-> [kind |-> "Generic", ident |-> "T", constraints |-> <<>>,
                    default_value |-> <<>>],
       arg |-> <<"Bar">>],
      [op |-> "push_parsed_constraint", generic |-> <<>>, arg |-> <<"U", ":", "Bar">>] }

\* the callback given in this run
GivenCallbacks == {cb \in Callbacks : cb.op = "push_constraint"}

InitImplFor ==
    /\ NoCodec
    /\ call = [op |-> "new", n |-> 0, ty |-> <<>>]
    /\ result = "Ok"
    /\ value = <<>>
    /\ subject = <<>>
    /\ input = <<>>
    /\ generics = [pc |-> "idle", result |-> <<>>]
    /\ constraints = <<>>
    /\ generator \in Generators
    /\ \E t \in {None, Some("Foo")} : impl_for = <<ImplFor_new("Bar", t)>>

\* the ImplFor that is being built
Self == impl_for[1]

\* what a call on the ImplFor leaves: the ImplFor, the Result, and the call
\* in the list of the calls made
Called(b, op, arg) ==
    /\ impl_for # <<>>
    /\ call.n < MaxCalls
    /\ impl_for' = <<b.self>>
    /\ result' = b.res
    /\ value' = <<>>
    /\ call' = [op |-> op, n |-> call.n + 1, ty |-> arg]
    /\ subject' = Append(subject, [op |-> op, arg |-> arg, res |-> b.res])
    /\ UNCHANGED <<codec, input, generics, constraints, generator>>

WithLifetimes(lts) ==
    /\ impl_for # <<>>
    /\ Called(Built(with_lifetimes(Self, lts), "Ok"), "with_lifetimes", lts)

NewLifetimesDependOnExisting ==
    /\ impl_for # <<>>
    /\ Called(Built(new_lifetimes_depend_on_existing(Self, generator), "Ok"),
              "new_lifetimes_depend_on_existing", <<>>)

WithTraitGenerics(gs) ==
    /\ impl_for # <<>>
    /\ Called(Built(with_trait_generics(Self, gs), "Ok"), "with_trait_generics", gs)

WithImplGenerics(gs) ==
    /\ impl_for # <<>>
    /\ Called(Built(with_impl_generics(Self, gs), "Ok"), "with_impl_generics", gs)

ImplOuterAttr(attr) ==
    /\ impl_for # <<>>
    /\ Called(impl_outer_attr(Self, attr), "impl_outer_attr", attr)

ImplInnerAttr(attr) ==
    /\ impl_for # <<>>
    /\ Called(impl_inner_attr(Self, attr), "impl_inner_attr", attr)

\* generate_const(name, ty).with_value(val)
GenerateConst(name) ==
    /\ impl_for # <<>>
    /\ Called(generate_const(Self, name, "U", "0"), "generate_const",
              <<"const", name, ":", "U", "=", "0", ";">>)

\* generate_fn(name) .. body(..): the FnBuilder appends definition and body
GenerateFn(name) ==
    /\ impl_for # <<>>
    /\ Called(append(Self, <<"fn", name, "(", ")">>, <<name, ";">>), "generate_fn",
              <<"fn", name, "(", ")", "{", name, ";", "}">>)

ImplType(name) ==
    /\ impl_for # <<>>
    /\ Called(impl_type(Self, <<name>>, <<"U">>), "impl_type", <<"type", name, "=", "U", ";">>)

ModifyGenericConstraints(cb) ==
    /\ impl_for # <<>>
    /\ Called(modify_generic_constraints(Self, generator, cb),
              "modify_generic_constraints", cb.arg)

\* the ImplFor goes out of scope, on the way of a panic or not
Drop(panicking) ==
    /\ impl_for # <<>>
    /\ impl_for' = <<>>
    /\ generator' = IF panicking THEN generator
                    ELSE [generator EXCEPT !.stream = Append(@, drop(Self, generator, FALSE))]
    /\ result' = "Ok"
    /\ value' = <<>>
    /\ call' = [op |-> "drop", n |-> call.n, ty |-> panicking]
    /\ UNCHANGED <<codec, subject, input, generics, constraints>>

NextImplFor ==
    \/ \E lts \in LifetimeLists : WithLifetimes(lts)
    \/ NewLifetimesDependOnExisting
    \/ \E gs \in TraitGenericLists : WithTraitGenerics(gs)
    \/ \E gs \in GenericLists : WithImplGenerics(gs)
    \/ \E attr \in OuterAttrs : ImplOuterAttr(attr)
    \/ \E attr \in Attrs : ImplInnerAttr(attr)
    \/ GenerateConst("N")
    \/ GenerateFn("foo")
    \/ ImplType("T")
    \/ \E cb \in GivenCallbacks : ModifyGenericConstraints(cb)
    \/ \E panicking \in BOOLEAN : Drop(panicking)

SpecImplFor == InitImplFor /\ [][NextImplFor]_vars

\* the arguments of the calls of one kind that returned Ok, in call order
ArgsOf(op) ==
    [i \in 1 .. Len(SelectSeq(subject, LAMBDA c : c.op = op /\ c.res = "Ok")) |->
        SelectSeq(subject, LAMBDA c : c.op = op /\ c.res = "Ok")[i].arg]

\* the block the drop appended to the generator
Block == generator.stream[Len(generator.stream)]

\* where the braces of the impl open in the block: outer attributes and the
\* impl definition hold no brace
BraceAt == CHOOSE k \in 1 .. Len(Block) : Block[k] = "{" /\ \A j \in 1 .. k - 1 : Block[j] # "{"

\* the ImplFor was dropped outside a panic
Dropped == call.op = "drop" /\ call.ty = FALSE

\* #![attr] for every inner attribute added
InnerAttrsBracketed ==
    Flatten([i \in 1 .. Len(ArgsOf("impl_inner_attr")) |->
                <<"#", "!", "[">> \o ArgsOf("impl_inner_attr")[i] \o <<"]">>])

\* C25: impl_inner_attr(attr) adds the tokens '#', '!' and a bracket-delimited
\* group holding attr, the delimiter impl_outer_attr uses for #[attr], and the
\* drop writes the inner attributes right inside the braces of the impl,
\* before any type, const or fn.
C25_InnerAttrBracketed ==
    /\ (call.op = "impl_inner_attr" /\ result = "Ok") =>
           Self.inner_attr[Len(Self.inner_attr)] = <<"#", "!", "[">> \o call.ty \o <<"]">>
    /\ (call.op = "impl_outer_attr" /\ result = "Ok") =>
           Self.outer_attr[Len(Self.outer_attr)] = <<"#", "[">> \o call.ty \o <<"]">>
    /\ Dropped =>
           SubSeq(Block, BraceAt + 1, BraceAt + Len(InnerAttrsBracketed)) = InnerAttrsBracketed

\* impl_inner_attr("inline") returned Ok and left #!{inline} as the inner
\* attribute
C25_Witness ==
    /\ call.op = "impl_inner_attr"
    /\ call.ty = <<"inline">>
    /\ result = "Ok"
    /\ Self.inner_attr = <<<<"#", "!", "{", "inline", "}">>>>

\* the argument of the last call of one kind, or nothing when none was made
LastArg(op) == IF ArgsOf(op) = <<>> THEN <<>> ELSE ArgsOf(op)[Len(ArgsOf(op))]

\* the items of a list with one comma between each two
Joined(items) ==
    Flatten([i \in 1 .. Len(items) |-> (IF i = 1 THEN <<>> ELSE <<",">>) \o items[i]])

\* the items in angle brackets
Angled(items) == <<"<">> \o Joined(items) \o <<">">>

\* the new lifetimes as written
NewLifetimes ==
    [i \in 1 .. Len(LastArg("with_lifetimes")) |-> <<"'", LastArg("with_lifetimes")[i]>>]

\* the names in a list of generics, each as one item
Named(gs) == [i \in 1 .. Len(gs) |-> <<gs[i]>>]

\* the type's own generics as the impl declares them, and as the type takes them
OwnDeclared ==
    [i \in 1 .. Len(unwrap_or_default(generator.generics)) |->
        LET g == Unwrap(generator.generics)[i]
        IN  CASE g.kind = "Lifetime" ->
                     <<"'", g.ident>>
                         \o (IF g.constraint = <<>> THEN <<>> ELSE <<":">> \o g.constraint)
              [] g.kind = "Generic" ->
                     <<g.ident>>
                         \o (IF g.constraints = <<>> THEN <<>> ELSE <<":">> \o g.constraints)
              [] OTHER -> <<"const", g.ident, ":">> \o g.constraints]

OwnTaken ==
    [i \in 1 .. Len(unwrap_or_default(generator.generics)) |->
        LET g == Unwrap(generator.generics)[i]
        IN  IF g.kind = "Lifetime" THEN <<"'", g.ident>> ELSE <<g.ident>>]

\* the impl generics of the layout: new lifetimes, the type's own generics,
\* the added impl generics
LayoutImplGenerics ==
    IF generator.generics = None
           /\ NewLifetimes \o Named(LastArg("with_impl_generics")) = <<>>
    THEN <<>>
    ELSE Angled(NewLifetimes \o OwnDeclared \o Named(LastArg("with_impl_generics")))

\* the trait of the layout: its name, its lifetimes and generics, `for`
LayoutTrait ==
    IF Self.trait_name = None THEN <<>>
    ELSE <<Unwrap(Self.trait_name)>>
             \o (IF NewLifetimes \o Named(LastArg("with_trait_generics")) = <<>> THEN <<>>
                 ELSE Angled(NewLifetimes \o Named(LastArg("with_trait_generics"))))
             \o <<"for">>

\* the type of the layout: its name and its generics
LayoutType ==
    <<Self.type_name>> \o (IF generator.generics = None THEN <<>> ELSE Angled(OwnTaken))

\* the where clause of the layout: the constraints the ImplFor was given, or
\* else those of the type
LayoutWhere ==
    IF Self.custom_generic_constraints # None
    THEN <<"where">> \o Unwrap(Self.custom_generic_constraints)
    ELSE IF generator.generic_constraints # None
    THEN <<"where">> \o Unwrap(generator.generic_constraints)
    ELSE <<>>

\* the inner attributes as impl_inner_attr built them hold the attributes
\* given, in call order
InnerAttrsInOrder ==
    /\ Len(Self.inner_attr) = Len(ArgsOf("impl_inner_attr"))
    /\ \A i \in 1 .. Len(Self.inner_attr) :
           SubSeq(Self.inner_attr[i], 4, Len(Self.inner_attr[i]) - 1)
               = ArgsOf("impl_inner_attr")[i]

\* the impl block of the layout
Layout ==
    Flatten([i \in 1 .. Len(ArgsOf("impl_outer_attr")) |->
                <<"#", "[">> \o ArgsOf("impl_outer_attr")[i] \o <<"]">>])
        \o <<"impl">>
        \o LayoutImplGenerics
        \o LayoutTrait
        \o LayoutType
        \o LayoutWhere
        \o <<"{">>
        \o Flatten(Self.inner_attr)
        \o Flatten(ArgsOf("impl_type"))
        \o Flatten(ArgsOf("generate_const"))
        \o Flatten(ArgsOf("generate_fn"))
        \o <<"}">>

====
